---------------------------- MODULE Spec2Model ----------------------------
(***************************************************************************)
(* Neural Graph Engine: entity-name canonicalization and multi-exposure    *)
(* aggregation (src/api/discover-batch.ts).                                *)
(*                                                                         *)
(* Strings are TLA+ strings; characters are strings of length 1 taken      *)
(* with SubSeq.  A JavaScript Map / Set is modelled by a sequence in       *)
(* insertion order, which is the order their iterators produce.            *)
(* A relationship is [entity_name, entity_type, category]; the free-text   *)
(* `details` and the company's `name`/`exchange` are carried through the   *)
(* pipeline untouched and are left out.                                    *)
(***************************************************************************)
EXTENDS Integers, Sequences, FiniteSets, TLC

VARIABLES
    pc,            \* position of the running handler / harness
    discovered,    \* companiesWithRelationships as returned by discovery (raw names)
    returned,      \* indices of the companies whose extraction task has completed
    companies,     \* companiesWithRelationships handed to the aggregator
    who_cares,     \* result of calculateWhoCaresFromRelationships
    response,      \* outcome of the semantic-resolution call
    resolvedNames, \* Map returned by resolveEntitiesSemantically: sequence of <<key, value>>
    name,          \* input of normalizeEntityName
    normalized,    \* normalizeEntityName(name)
    renormalized,  \* normalizeEntityName(normalized)
    request,       \* the request a handler received: [method, isArray, companies]
    keys,          \* which API keys process.env holds: [perplexity, serpapi, claude]
    invoked,       \* the discovery strategies invoked so far, each with how it ended
    tasks,         \* the per-company tasks of the strategy being awaited
    completed,     \* indices of the settled tasks, in the order they settled
    result,        \* the answer sent: [status, companies, who_cares, stats, search_mode]
    appState,      \* Home: 'landing', 'input', 'confirmation', 'analyzing' or 'results'
    pastedText,    \* Home: the text of the textarea
    batchOutput,   \* Home: the batch shown: [source, companies]
    isProcessing,  \* Home: a request of the page is in flight
    error,         \* Home: the error message shown, "" for null
    pending        \* the fetches of the page that have not settled, oldest first

vars == <<pc, discovered, returned, companies, who_cares, response, resolvedNames,
          name, normalized, renormalized,
          request, keys, invoked, tasks, completed, result,
          appState, pastedText, batchOutput, isProcessing, error, pending>>

\* the state of the Home page (SpecClient), with `companies`
clientVars == <<appState, pastedText, batchOutput, isProcessing, error, pending>>

\* batchOutput = null
NoBatch == [source |-> "none", companies |-> <<>>]

\* the page as mounted: the initial values of useState (lines 33-39)
ClientIdle ==
    /\ appState = "landing"
    /\ pastedText = ""
    /\ batchOutput = NoBatch
    /\ isProcessing = FALSE
    /\ error = ""
    /\ pending = <<>>

\* the variables of the full DiscoverBatch handler (SpecDiscover)
discoverVars == <<request, keys, invoked, tasks, completed, result>>

\* no request has been received and nothing has been sent
NoRequest == [method |-> "", isArray |-> FALSE, companies |-> <<>>]
NoKeys    == [perplexity |-> FALSE, serpapi |-> FALSE, claude |-> FALSE]
NoResult  == [status |-> 0]

DiscoverIdle ==
    /\ request = NoRequest
    /\ keys = NoKeys
    /\ invoked = <<>>
    /\ tasks = <<>>
    /\ completed = <<>>
    /\ result = NoResult
    /\ ClientIdle

----------------------------------------------------------------------------
(* Bounds of the model *)

\* most relationships one company's extraction returns
MaxRels == 2
\* most relationships in one batch
MaxMentions == 5
\* most corporate suffixes stacked behind a stem in an input of normalizeEntityName
MaxSuffixes == 2

----------------------------------------------------------------------------
(* Characters and strings *)

Char(s, i) == SubSeq(s, i, i)

UpperLetters == "ABCDEFGHIJKLMNOPQRSTUVWXYZ"
LowerLetters == "abcdefghijklmnopqrstuvwxyz"

\* \s of a JavaScript regular expression, and what String.prototype.trim removes
IsSpace(c) == c \in {" ", "\t", "\n", "\r", "\f"}

IndexIn(letters, c) ==
    IF \E i \in 1..Len(letters) : Char(letters, i) = c
    THEN CHOOSE i \in 1..Len(letters) : Char(letters, i) = c
    ELSE 0

LowerChar(c) ==
    LET i == IndexIn(UpperLetters, c) IN IF i = 0 THEN c ELSE Char(LowerLetters, i)

UpperChar(c) ==
    LET i == IndexIn(LowerLetters, c) IN IF i = 0 THEN c ELSE Char(UpperLetters, i)

RECURSIVE toLowerCase(_)
toLowerCase(s) ==
    IF s = "" THEN ""
    ELSE LowerChar(Char(s, 1)) \o toLowerCase(SubSeq(s, 2, Len(s)))

RECURSIVE toUpperCase(_)
toUpperCase(s) ==
    IF s = "" THEN ""
    ELSE UpperChar(Char(s, 1)) \o toUpperCase(SubSeq(s, 2, Len(s)))

RECURSIVE TrimStart(_)
TrimStart(s) ==
    IF s # "" /\ IsSpace(Char(s, 1)) THEN TrimStart(SubSeq(s, 2, Len(s))) ELSE s

RECURSIVE TrimEnd(_)
TrimEnd(s) ==
    IF s # "" /\ IsSpace(Char(s, Len(s))) THEN TrimEnd(SubSeq(s, 1, Len(s) - 1)) ELSE s

\* String.prototype.trim
Trim(s) == TrimEnd(TrimStart(s))

Min(S) == CHOOSE x \in S : \A y \in S : x <= y

----------------------------------------------------------------------------
(* Entity-name normalization (Tier 1 alias table, Tier 2 suffix stripping  *)
(* and casing).  Names that are property names of Object.prototype are not *)
(* among the inputs.                                                       *)

\* the alias table in source order, <<alias, canonical>>
knownEntities ==
    << <<"ernst & young", "Ernst & Young">>,
       <<"ey", "Ernst & Young">>,
       <<"ernst & young (ey)", "Ernst & Young">>,
       <<"pricewaterhousecoopers", "PwC">>,
       <<"pwc", "PwC">>,
       <<"pricewaterhousecoopers (pwc)", "PwC">>,
       <<"kpmg australia", "KPMG">>,
       <<"kpmg", "KPMG">>,
       <<"deloitte touche tohmatsu", "Deloitte">>,
       <<"deloitte", "Deloitte">>,
       <<"bdo australia", "BDO">>,
       <<"bdo", "BDO">>,
       <<"hsbc custody nominees (australia) limited", "HSBC Custody Nominees">>,
       <<"hsbc custody nominees", "HSBC Custody Nominees">>,
       <<"j p morgan nominees australia pty limited", "JP Morgan Nominees">>,
       <<"jp morgan nominees australia", "JP Morgan Nominees">>,
       <<"j.p. morgan", "JP Morgan">>,
       <<"citicorp nominees pty limited", "Citicorp Nominees">>,
       <<"national nominees limited", "National Nominees">>,
       <<"bnp paribas nominees pty ltd", "BNP Paribas Nominees">>,
       <<"blackrock, inc.", "BlackRock">>,
       <<"blackrock inc", "BlackRock">>,
       <<"blackrock group", "BlackRock">>,
       <<"blackrock", "BlackRock">>,
       <<"vanguard group", "Vanguard">>,
       <<"the vanguard group", "Vanguard">>,
       <<"vanguard funds", "Vanguard">>,
       <<"vanguard", "Vanguard">>,
       <<"state street corporation", "State Street">>,
       <<"state street corporation and subsidiaries", "State Street">>,
       <<"state street", "State Street">>,
       <<"fidelity investments", "Fidelity">>,
       <<"fidelity", "Fidelity">>,
       <<"fil limited", "Fidelity">>,
       <<"macquarie group limited", "Macquarie">>,
       <<"macquarie group", "Macquarie">>,
       <<"macquarie capital", "Macquarie">>,
       <<"macquarie bank", "Macquarie">>,
       <<"macquarie", "Macquarie">>,
       <<"goldman sachs", "Goldman Sachs">>,
       <<"goldman sachs australia", "Goldman Sachs">>,
       <<"ubs", "UBS">>,
       <<"ubs australia", "UBS">>,
       <<"morgan stanley", "Morgan Stanley">>,
       <<"morgan stanley australia", "Morgan Stanley">>,
       <<"citi", "Citi">>,
       <<"citigroup", "Citi">>,
       <<"citibank", "Citi">>,
       <<"jp morgan", "JP Morgan">>,
       <<"jpmorgan", "JP Morgan">>,
       <<"j.p. morgan chase", "JP Morgan">>,
       <<"bell potter", "Bell Potter">>,
       <<"bell potter securities", "Bell Potter">>,
       <<"kkr", "KKR">>,
       <<"kkr & co", "KKR">>,
       <<"kohlberg kravis roberts", "KKR">>,
       <<"tpg", "TPG">>,
       <<"tpg capital", "TPG">>,
       <<"carlyle", "Carlyle Group">>,
       <<"carlyle group", "Carlyle Group">>,
       <<"bgh capital", "BGH Capital">>,
       <<"affinity equity partners", "Affinity Equity Partners">>,
       <<"brookfield", "Brookfield">>,
       <<"brookfield asset management", "Brookfield">>,
       <<"accc", "ACCC">>,
       <<"australian competition and consumer commission", "ACCC">>,
       <<"asic", "ASIC">>,
       <<"australian securities and investments commission", "ASIC">>,
       <<"asx", "ASX">>,
       <<"australian securities exchange", "ASX">>,
       <<"ato", "ATO">>,
       <<"australian taxation office", "ATO">>,
       <<"apra", "APRA">>,
       <<"australian prudential regulation authority", "APRA">>,
       <<"link market services", "Link Market Services">>,
       <<"link administration", "Link Market Services">>,
       <<"computershare", "Computershare">>,
       <<"computershare limited", "Computershare">>,
       <<"sonic healthcare", "Sonic Healthcare">>,
       <<"sonic healthcare ltd", "Sonic Healthcare">>,
       <<"sonic healthcare ltd (asx: shl)", "Sonic Healthcare">>,
       <<"sonic healthcare (asx: shl)", "Sonic Healthcare">>,
       <<"healius", "Healius">>,
       <<"healius limited", "Healius">>,
       <<"healius ltd", "Healius">>,
       <<"ramsay health care", "Ramsay Health Care">>,
       <<"ramsay health care limited", "Ramsay Health Care">>,
       <<"healthscope", "Healthscope">>,
       <<"healthscope limited", "Healthscope">>,
       <<"australian clinical labs", "Australian Clinical Labs">>,
       <<"australian clinical labs ltd", "Australian Clinical Labs">>,
       <<"australian clinical labs ltd (asx: acl)", "Australian Clinical Labs">>,
       <<"australian retirement trust", "Australian Retirement Trust">>,
       <<"australian retirement trust pty ltd", "Australian Retirement Trust">>,
       <<"unisuper", "UniSuper">>,
       <<"unisuper limited", "UniSuper">>,
       <<"aware super", "Aware Super">>,
       <<"cbus", "Cbus">>,
       <<"cbus super", "Cbus">>,
       <<"hostplus", "Hostplus">>,
       <<"rest super", "REST Super">>,
       <<"perpetual limited", "Perpetual">>,
       <<"perpetual", "Perpetual">>,
       <<"allan gray", "Allan Gray">>,
       <<"allan gray australia", "Allan Gray">>,
       <<"allan gray australia pty ltd", "Allan Gray">>,
       <<"dimensional fund advisors", "DFA">>,
       <<"dfa", "DFA">>,
       <<"lazard asset management", "Lazard">>,
       <<"lazard", "Lazard">> >>

\* word.length <= 4
AcronymMaxLen == 4

\* knownEntities[lowerName], 0 when undefined
AliasIndex(lowerName) ==
    IF \E i \in 1..Len(knownEntities) : knownEntities[i][1] = lowerName
    THEN CHOOSE i \in 1..Len(knownEntities) : knownEntities[i][1] = lowerName
    ELSE 0

\* String.prototype.includes
Includes(s, sub) ==
    \E i \in 1..(Len(s) - Len(sub) + 1) : SubSeq(s, i, i + Len(sub) - 1) = sub

\* does the alias of table row i decide the name whose lower-cased form is lowerName
AliasMatches(lowerName, alias) == Includes(lowerName, alias)

\* the first table row, in Object.entries order, whose alias matches, 0 when none
FirstContained(lowerName) ==
    LET hits == {i \in 1..Len(knownEntities) : AliasMatches(lowerName, knownEntities[i][1])}
    IN  IF hits = {} THEN 0 ELSE CHOOSE i \in hits : \A j \in hits : i <= j

(* Regular expressions, all with flag i and without flag g.  A pattern is a *)
(* sequence of atoms:                                                       *)
(*   Ws(min)          \s* (min 0) or \s+ (min 1)                            *)
(*   Lit(s)           the literal s                                         *)
(*   Opt(s)           the literal s, optional                               *)
(*   Alpha(min, max)  [a-z]{min,max}; max = -1 for [a-z]+                   *)
(*   AtEnd            $                                                     *)
Ws(min)         == [t |-> "ws", min |-> min]
Lit(s)          == [t |-> "lit", s |-> s]
Opt(s)          == [t |-> "opt", s |-> s]
Alpha(min, max) == [t |-> "alpha", min |-> min, max |-> max]
AtEnd           == [t |-> "end"]

suffixPatterns ==
    << <<Ws(0), Lit("(asx:"), Ws(0), Alpha(1, -1), Lit(")")>>,
       <<Ws(0), Lit("("), Alpha(2, 4), Lit(")")>>,
       <<Ws(0), Lit("pty"), Opt("."), Ws(0), Lit("ltd"), Opt(".")>>,
       <<Ws(0), Lit("limited"), AtEnd>>,
       <<Ws(0), Lit("ltd"), Opt("."), AtEnd>>,
       <<Ws(0), Lit("inc"), Opt("."), AtEnd>>,
       <<Ws(0), Lit("incorporated"), AtEnd>>,
       <<Ws(0), Lit("corporation"), AtEnd>>,
       <<Ws(0), Lit("corp"), Opt("."), AtEnd>>,
       <<Ws(0), Lit("&"), Ws(0), Lit("co"), Opt("."), AtEnd>>,
       <<Ws(0), Lit("and"), Ws(1), Lit("subsidiaries"), AtEnd>>,
       <<Ws(0), Lit("group"), AtEnd>>,
       <<Ws(0), Lit("holdings"), AtEnd>>,
       <<Ws(0), Lit("australia"), AtEnd>> >>

IsLetter(c) == IndexIn(LowerLetters, LowerChar(c)) # 0

\* character classes: \s, [a-z] under flag i, [A-Z], and "not the separator of
\* split(' ')" / "not the separator of split('\n')"
InClass(class, c) ==
    CASE class = "space"  -> IsSpace(c)
      [] class = "letter" -> IsLetter(c)
      [] class = "upper"  -> IndexIn(UpperLetters, c) # 0
      [] class = "word"   -> c # " "
      [] class = "line"   -> c # "\n"

\* number of consecutive characters of the class from position i on
RECURSIVE RunLength(_, _, _)
RunLength(s, i, class) ==
    IF i <= Len(s) /\ InClass(class, Char(s, i)) THEN 1 + RunLength(s, i + 1, class) ELSE 0

\* the literal lit stands at position i of s (case-insensitive)
LitAt(s, i, lit) ==
    /\ i + Len(lit) - 1 <= Len(s)
    /\ toLowerCase(SubSeq(s, i, i + Len(lit) - 1)) = lit

\* the positions just behind a match of pat[k..] that starts at position i
RECURSIVE MatchEnds(_, _, _, _)
MatchEnds(s, i, pat, k) ==
    IF k > Len(pat) THEN {i}
    ELSE LET a == pat[k] IN
         CASE a.t = "ws" ->
                UNION {MatchEnds(s, i + n, pat, k + 1) : n \in a.min..RunLength(s, i, "space")}
           [] a.t = "lit" ->
                IF LitAt(s, i, a.s) THEN MatchEnds(s, i + Len(a.s), pat, k + 1) ELSE {}
           [] a.t = "opt" ->
                (IF LitAt(s, i, a.s) THEN MatchEnds(s, i + Len(a.s), pat, k + 1) ELSE {})
                \cup MatchEnds(s, i, pat, k + 1)
           [] a.t = "alpha" ->
                LET run == RunLength(s, i, "letter")
                    top == IF a.max < 0 \/ run < a.max THEN run ELSE a.max
                IN  UNION {MatchEnds(s, i + n, pat, k + 1) : n \in a.min..top}
           [] a.t = "end" ->
                IF i = Len(s) + 1 THEN MatchEnds(s, i, pat, k + 1) ELSE {}

Max(S) == CHOOSE x \in S : \A y \in S : x >= y

\* String.prototype.replace(pattern, ''): the leftmost match is removed; every
\* quantifier of these patterns is greedy and the match from a given start is the
\* longest one
ReplaceFirst(s, pat) ==
    LET starts == {i \in 1..(Len(s) + 1) : MatchEnds(s, i, pat, 1) # {}}
    IN  IF starts = {} THEN s
        ELSE LET i == Min(starts)
                 e == Max(MatchEnds(s, i, pat, 1))
             IN  SubSeq(s, 1, i - 1) \o SubSeq(s, e, Len(s))

\* for (const pattern of suffixPatterns) normalized = normalized.replace(pattern, '')
RECURSIVE StripSuffixes(_, _)
StripSuffixes(s, k) ==
    IF k > Len(suffixPatterns) THEN s
    ELSE StripSuffixes(ReplaceFirst(s, suffixPatterns[k]), k + 1)

\* replace(/\s+/g, ' ')
RECURSIVE CollapseSpaces(_)
CollapseSpaces(s) ==
    IF s = "" THEN ""
    ELSE IF IsSpace(Char(s, 1))
         THEN " " \o CollapseSpaces(SubSeq(s, 1 + RunLength(s, 1, "space"), Len(s)))
         ELSE Char(s, 1) \o CollapseSpaces(SubSeq(s, 2, Len(s)))

\* the callback of .map(word => ...): acronyms kept, other words capitalised
TitleWord(word) ==
    IF Len(word) <= AcronymMaxLen /\ word = toUpperCase(word)
    THEN word
    ELSE UpperChar(Char(word, 1)) \o toLowerCase(SubSeq(word, 2, Len(word)))

\* split(' ').map(...).join(' ')
RECURSIVE TitleCase(_)
TitleCase(s) ==
    LET n == RunLength(s, 1, "word") IN
    IF n = Len(s) THEN TitleWord(s)
    ELSE TitleWord(SubSeq(s, 1, n)) \o " " \o TitleCase(SubSeq(s, n + 2, Len(s)))

\* Tier 2: lines 259-298
NormalizeGeneric(trimmed) ==
    LET cleaned == Trim(CollapseSpaces(StripSuffixes(trimmed, 1)))
    IN  IF Len(cleaned) > 0 THEN TitleCase(cleaned) ELSE cleaned

normalizeEntityName(n) ==
    LET trimmed   == Trim(n)
        lowerName == toLowerCase(trimmed)
        exact     == AliasIndex(lowerName)
        contained == FirstContained(lowerName)
    IN  IF exact # 0 THEN knownEntities[exact][2]
        ELSE IF contained # 0 THEN knownEntities[contained][2]
        ELSE NormalizeGeneric(trimmed)

----------------------------------------------------------------------------
(* Extraction: category -> entity_type *)

typeMap(type) ==
    CASE type = "shareholder" -> "company"
      [] type = "director"    -> "person"
      [] type = "executive"   -> "person"
      [] type = "auditor"     -> "firm"
      [] type = "broker"      -> "firm"
      [] type = "advisor"     -> "firm"
      [] type = "competitor"  -> "company"
      [] type = "pe_firm"     -> "company"
      [] type = "lender"      -> "firm"
      [] type = "government"  -> "government"
      [] type = "registry"    -> "firm"
      [] type = "supplier"    -> "company"
      [] type = "customer"    -> "company"
      [] OTHER                -> ""

mapEntityType(type) ==
    LET t == typeMap(toLowerCase(type)) IN IF t = "" THEN "firm" ELSE t

\* one element of the array extractRelationshipsWithClaude returns
Relationship(entityName, type) ==
    [entity_name |-> entityName, entity_type |-> mapEntityType(type), category |-> type]

----------------------------------------------------------------------------
(* The exposure aggregator *)

\* tickers.size >= 2
MinExposure == 2

SeqToSet(s) == {s[i] : i \in 1..Len(s)}

\* faulty variant of SetAdd: an array push instead of Set.add
SetAddAlways(s, x) == Append(s, x)

\* Set.prototype.add on a Set kept in insertion order
SetAdd(s, x) == IF x \in SeqToSet(s) THEN s ELSE Append(s, x)

\* index of key k in a Map kept as a sequence of records with field `key`, or 0
MapIndex(m, k) ==
    IF \E i \in 1..Len(m) : m[i].key = k
    THEN CHOOSE i \in 1..Len(m) : m[i].key = k
    ELSE 0

\* the companies' relationships in company-then-relationship iteration order
RECURSIVE Mentions(_)
Mentions(cs) ==
    IF cs = <<>> THEN <<>>
    ELSE [i \in 1..Len(Head(cs).relationships) |->
             [ticker |-> Head(cs).ticker, rel |-> Head(cs).relationships[i]]]
         \o Mentions(Tail(cs))

\* the key the aggregator files a relationship under: rel.entity_name.trim() at
\* line 591, rel.entity_name in the handler with semantic resolution (line 1857)
MentionKey(rel, trimNames) == IF trimNames THEN Trim(rel.entity_name) ELSE rel.entity_name

\* entityDetails.set(name, {type, category}) on every relationship
SetDetails(rel) == [type |-> rel.entity_type, category |-> rel.category]

\* body of the inner loop: entityMap / entityDetails after one more relationship.
\* An entry is [key, tickers, details]: entityMap.get(key) and entityDetails.get(key).
AddMention(m, mention, trimNames) ==
    LET key == MentionKey(mention.rel, trimNames)
        i   == MapIndex(m, key)
    IN  IF i = 0
        THEN Append(m, [key     |-> key,
                        tickers |-> <<mention.ticker>>,
                        details |-> SetDetails(mention.rel)])
        ELSE [m EXCEPT ![i] = [key     |-> key,
                               tickers |-> SetAdd(m[i].tickers, mention.ticker),
                               details |-> SetDetails(mention.rel)]]

RECURSIVE BuildEntityMap(_, _, _)
BuildEntityMap(m, ms, trimNames) ==
    IF ms = <<>> THEN m
    ELSE BuildEntityMap(AddMention(m, Head(ms), trimNames), Tail(ms), trimNames)

\* faulty variant of Exposed: single-ticker entities pass the filter
ExposedOnce(entry) == Len(entry.tickers) >= 1

\* .filter(([_, tickers]) => tickers.size >= 2)
Exposed(entry) == Len(entry.tickers) >= MinExposure

\* relationship_type of one exposure_details element
DetailCategory(entry, ticker) == entry.details.category

\* .map(([name, tickers]) => ({...}))
ToWhoCaresEntity(entry) ==
    [entity_name      |-> entry.key,
     entity_type      |-> entry.details.type,
     category         |-> entry.details.category,
     exposure_count   |-> Len(entry.tickers),
     exposed_companies |-> entry.tickers,
     exposure_details |-> [i \in 1..Len(entry.tickers) |->
                              [ticker |-> entry.tickers[i],
                               relationship_type |-> DetailCategory(entry, entry.tickers[i])]]]

\* comparator (a, b) => b.exposure_count - a.exposure_count: negative when a sorts first
Compare(a, b) == b.exposure_count - a.exposure_count

\* faulty variant of InsertSorted: an unstable sort that puts the later of two
\* equal elements first
RECURSIVE InsertSortedUnstable(_, _)
InsertSortedUnstable(s, e) ==
    IF s = <<>> THEN <<e>>
    ELSE IF Compare(Head(s), e) < 0
         THEN <<Head(s)>> \o InsertSortedUnstable(Tail(s), e)
         ELSE <<e>> \o s

\* insert e behind every element that does not sort after it (stable)
RECURSIVE InsertSorted(_, _)
InsertSorted(s, e) ==
    IF s = <<>> THEN <<e>>
    ELSE IF Compare(Head(s), e) <= 0
         THEN <<Head(s)>> \o InsertSorted(Tail(s), e)
         ELSE <<e>> \o s

\* Array.prototype.sort with the comparator above (stable since ES2019)
RECURSIVE SortByExposure(_)
SortByExposure(s) ==
    IF s = <<>> THEN <<>>
    ELSE InsertSorted(SortByExposure(SubSeq(s, 1, Len(s) - 1)), s[Len(s)])

WhoCares(cs, trimNames) ==
    LET entityMap == BuildEntityMap(<<>>, Mentions(cs), trimNames)
        kept      == SelectSeq(entityMap, Exposed)
    IN  SortByExposure([i \in 1..Len(kept) |-> ToWhoCaresEntity(kept[i])])

\* lines 583-617
calculateWhoCaresFromRelationships(cs) == WhoCares(cs, TRUE)

\* lines 1849-1883
calculateWhoCaresSemantic(cs) == WhoCares(cs, FALSE)

----------------------------------------------------------------------------
(* SpecAgg: the aggregator applied to every list of companies (within the  *)
(* bounds).  The list is built one relationship at a time, then aggregated. *)

\* ticker lists of the batches; the second repeats a ticker, the third holds a
\* company without ticker
BatchTickers == {<<"MVF", "TER", "ACL">>, <<"MVF", "TER", "MVF">>, <<"MVF", "", "ACL">>}

\* what extraction may return for a company: <<name, type>>.  "BDO " differs
\* from "BDO" by a trailing blank; each entity occurs under two categories
AggEntities ==
    {<<"BDO", "shareholder">>, <<"BDO ", "director">>,
     <<"KPMG", "auditor">>, <<"KPMG", "director">>}

\* no semantic-resolution call has been made
NoResponse == [kind |-> "none", mappings |-> <<>>]

EmptyBatch(tickers) ==
    [i \in 1..Len(tickers) |-> [ticker |-> tickers[i], relationships |-> <<>>]]

TotalRelationships(cs) == Len(Mentions(cs))

Idle ==
    /\ discovered = <<>>
    /\ returned = {}
    /\ response = NoResponse
    /\ resolvedNames = <<>>
    /\ name = ""
    /\ normalized = ""
    /\ renormalized = ""
    /\ DiscoverIdle

InitAgg ==
    /\ pc = "input"
    /\ \E tickers \in BatchTickers : companies = EmptyBatch(tickers)
    /\ who_cares = <<>>
    /\ Idle

\* one more relationship in company i's list
AddRelationship(i, entityName, type) ==
    /\ pc = "input"
    /\ Len(companies[i].relationships) < MaxRels
    /\ TotalRelationships(companies) < MaxMentions
    /\ companies' = [companies EXCEPT ![i].relationships =
                        Append(@, Relationship(entityName, type))]
    /\ UNCHANGED <<pc, discovered, returned, who_cares, response, resolvedNames,
                   name, normalized, renormalized,
                   discoverVars, clientVars>>

Aggregate ==
    /\ pc = "input"
    /\ who_cares' = calculateWhoCaresFromRelationships(companies)
    /\ pc' = "done"
    /\ UNCHANGED <<discovered, returned, companies, response, resolvedNames,
                   name, normalized, renormalized,
                   discoverVars, clientVars>>

NextAgg ==
    \/ \E i \in 1..Len(companies), e \in AggEntities :
          AddRelationship(i, e[1], e[2])
    \/ Aggregate

SpecAgg == InitAgg /\ [][NextAgg]_vars

----------------------------------------------------------------------------
(* Properties of the aggregator, stated without its maps *)

\* indices in Mentions(cs) of the relationships filed under key
MentionIndices(cs, key) ==
    {k \in 1..Len(Mentions(cs)) : Trim(Mentions(cs)[k].rel.entity_name) = key}

\* the distinct tickers of the companies that list key
TickersOf(cs, key) == {Mentions(cs)[k].ticker : k \in MentionIndices(cs, key)}

KeysOf(cs) == {Trim(Mentions(cs)[k].rel.entity_name) : k \in 1..Len(Mentions(cs))}

\* position of the first relationship encountered for key
FirstMention(cs, key) == Min(MentionIndices(cs, key))

EmittedNames == {who_cares[i].entity_name : i \in 1..Len(who_cares)}

\* the categories under which the companies with this ticker list key
OwnCategories(cs, key, ticker) ==
    {Mentions(cs)[k].rel.category :
        k \in {k \in MentionIndices(cs, key) : Mentions(cs)[k].ticker = ticker}}

NoDuplicates(s) == \A i, j \in 1..Len(s) : i # j => s[i] # s[j]

\* C1: an entity name is in the aggregator's output if and only if companies
\* with at least two distinct tickers list it; every emitted name is a listed one.
C1_Threshold ==
    pc = "done" =>
        /\ EmittedNames \subseteq KeysOf(companies)
        /\ \A key \in KeysOf(companies) :
              key \in EmittedNames <=> Cardinality(TickersOf(companies, key)) >= 2

\* C1 witness: one entity emitted while another, listed twice but only under
\* one ticker, is absent.
C1_Witness ==
    /\ pc = "done"
    /\ who_cares # <<>>
    /\ \E key \in KeysOf(companies) :
          /\ Cardinality(MentionIndices(companies, key)) >= 2
          /\ Cardinality(TickersOf(companies, key)) = 1
          /\ key \notin EmittedNames

\* C2: every emitted entity has exposure_count = |exposed_companies| =
\* |exposure_details| >= 2, no ticker twice in exposed_companies, and its
\* details list the exposed tickers one for one.
C2_Invariant ==
    \A i \in 1..Len(who_cares) :
        LET e == who_cares[i] IN
        /\ e.exposure_count = Len(e.exposed_companies)
        /\ e.exposure_count = Len(e.exposure_details)
        /\ e.exposure_count >= 2
        /\ NoDuplicates(e.exposed_companies)
        /\ \A k \in 1..Len(e.exposure_details) :
              e.exposure_details[k].ticker = e.exposed_companies[k]

\* C2 witness: an emitted entity that one ticker lists more than once.
C2_Witness ==
    /\ pc = "done"
    /\ \E i \in 1..Len(who_cares) :
          Cardinality(MentionIndices(companies, who_cares[i].entity_name))
              > who_cares[i].exposure_count

\* C3 (as claimed): the entity-level category and entity_type are those of the
\* first relationship encountered for the entity.
C3_FirstEncountered ==
    pc = "done" =>
        \A i \in 1..Len(who_cares) :
            LET first == Mentions(companies)[FirstMention(companies, who_cares[i].entity_name)].rel
            IN  /\ who_cares[i].category = first.category
                /\ who_cares[i].entity_type = first.entity_type

\* C4 (as claimed): each exposure_details entry carries a category under which
\* the company with that ticker itself listed the entity.
C4_OwnCategory ==
    pc = "done" =>
        \A i \in 1..Len(who_cares) :
            \A k \in 1..Len(who_cares[i].exposure_details) :
                LET d == who_cares[i].exposure_details[k] IN
                d.relationship_type \in
                    OwnCategories(companies, who_cares[i].entity_name, d.ticker)

\* C5: the output is sorted by exposure_count, largest first, and entities of
\* equal exposure_count stand in the order in which they were first encountered.
C5_Ordering ==
    pc = "done" =>
        \A i, j \in 1..Len(who_cares) :
            i < j =>
                /\ who_cares[i].exposure_count >= who_cares[j].exposure_count
                /\ who_cares[i].exposure_count = who_cares[j].exposure_count
                      => FirstMention(companies, who_cares[i].entity_name)
                           < FirstMention(companies, who_cares[j].entity_name)

\* C5 witness: two emitted entities of equal exposure_count.
C5_Witness ==
    /\ pc = "done"
    /\ Len(who_cares) = 2
    /\ who_cares[1].exposure_count = who_cares[2].exposure_count

\* the sort moves an entity encountered later in front of an earlier one
C5_Reordered ==
    /\ pc = "done"
    /\ Len(who_cares) = 2
    /\ who_cares[1].exposure_count > who_cares[2].exposure_count
    /\ FirstMention(companies, who_cares[1].entity_name)
          > FirstMention(companies, who_cares[2].entity_name)

----------------------------------------------------------------------------
(* SpecNorm: normalizeEntityName applied to a name and again to its result *)

SeqsUpTo(S, n) == UNION {[1..k -> S] : k \in 0..n}

RECURSIVE Concat(_)
Concat(ss) == IF ss = <<>> THEN "" ELSE Head(ss) \o Concat(Tail(ss))

NormStems == {"", "Foo", "  acme  widgets", "Macquarie Capital", "Citicorp Nominees"}

NormSuffixes == {" Limited", " Holdings", " Pty Ltd", " Group", " Australia", " (ASX: FOO)"}

AliasNames == {knownEntities[i][1] : i \in 1..Len(knownEntities)}

CanonicalNames == {knownEntities[i][2] : i \in 1..Len(knownEntities)}

NormInputs ==
    AliasNames \cup CanonicalNames
    \cup {stem \o Concat(ss) : stem \in NormStems, ss \in SeqsUpTo(NormSuffixes, MaxSuffixes)}

InitNorm ==
    /\ pc = "name"
    /\ name \in NormInputs
    /\ normalized = ""
    /\ renormalized = ""
    /\ discovered = <<>>
    /\ returned = {}
    /\ companies = <<>>
    /\ who_cares = <<>>
    /\ response = NoResponse
    /\ resolvedNames = <<>>
    /\ DiscoverIdle

Normalize ==
    /\ pc = "name"
    /\ normalized' = normalizeEntityName(name)
    /\ pc' = "normalized"
    /\ UNCHANGED <<discovered, returned, companies, who_cares, response, resolvedNames,
                   name, renormalized,
                   discoverVars, clientVars>>

Renormalize ==
    /\ pc = "normalized"
    /\ renormalized' = normalizeEntityName(normalized)
    /\ pc' = "renormalized"
    /\ UNCHANGED <<discovered, returned, companies, who_cares, response, resolvedNames,
                   name, normalized,
                   discoverVars, clientVars>>

NextNorm == Normalize \/ Renormalize

SpecNorm == InitNorm /\ [][NextNorm]_vars

\* C8 (as claimed): normalizeEntityName(normalizeEntityName(n)) = normalizeEntityName(n).
C8_Idempotent == pc = "renormalized" => renormalized = normalized

\* C8 fails on an exact alias-table hit whose canonical value contains another alias
C8_AliasNotFixed ==
    /\ pc = "renormalized"
    /\ AliasIndex(toLowerCase(Trim(name))) # 0
    /\ renormalized # normalized

\* C8 fails on stacked suffixes without any alias involved
C8_SuffixNotFixed ==
    /\ pc = "renormalized"
    /\ FirstContained(toLowerCase(Trim(name))) = 0
    /\ FirstContained(toLowerCase(normalized)) = 0
    /\ renormalized # normalized

----------------------------------------------------------------------------
(* SpecBatch: the handler with rule-based canonicalization (lines 18-94).  *)
(* The per-company extraction tasks of a discoverBatchWith... call return   *)
(* in any order; the handler then normalizes, aggregates and answers in one *)
(* synchronous step.                                                        *)

\* the companies of the request
RequestTickers == <<"MVF", "TER", "ACL">>

\* what an extraction may return for a company: <<name, type>>
BatchEntities ==
    {<<"BDO Australia", "auditor">>, <<"BDO", "auditor">>,
     <<"Acme Holdings Pty Ltd", "supplier">>, <<" acme", "customer">>}

\* entities.map(entity => ({entity_name: entity.name, ...}))
ToRelationships(entities) ==
    [k \in 1..Len(entities) |-> Relationship(entities[k][1], entities[k][2])]

\* normalizeEntityName tabulated over the names an extraction may return
CanonicalName == [raw \in {e[1] : e \in BatchEntities} |-> normalizeEntityName(raw)]

\* faulty variant of normalizeAllEntityNames: the names are left as extracted
KeepEntityNames(cs) == cs

normalizeAllEntityNames(cs) ==
    [i \in 1..Len(cs) |->
        [cs[i] EXCEPT !.relationships =
            [k \in 1..Len(cs[i].relationships) |->
                [cs[i].relationships[k] EXCEPT
                    !.entity_name = CanonicalName[cs[i].relationships[k].entity_name]]]]]

InitBatch ==
    /\ pc = "discover"
    /\ discovered = EmptyBatch(RequestTickers)
    /\ returned = {}
    /\ companies = <<>>
    /\ who_cares = <<>>
    /\ response = NoResponse
    /\ resolvedNames = <<>>
    /\ name = ""
    /\ normalized = ""
    /\ renormalized = ""
    /\ DiscoverIdle

\* the extraction task of company i completes with these entities
ExtractionReturns(i, entities) ==
    /\ pc = "discover"
    /\ i \notin returned
    /\ TotalRelationships(discovered) + Len(entities) <= MaxMentions
    /\ discovered' = [discovered EXCEPT ![i].relationships = ToRelationships(entities)]
    /\ returned' = returned \cup {i}
    /\ UNCHANGED <<pc, companies, who_cares, response, resolvedNames,
                   name, normalized, renormalized,
                   discoverVars, clientVars>>

\* lines 74-89, after Promise.all has resolved
RespondBatch ==
    /\ pc = "discover"
    /\ returned = 1..Len(discovered)
    /\ companies' = normalizeAllEntityNames(discovered)
    /\ who_cares' = calculateWhoCaresFromRelationships(companies')
    /\ pc' = "done"
    /\ UNCHANGED <<discovered, returned, response, resolvedNames,
                   name, normalized, renormalized,
                   discoverVars, clientVars>>

NextBatch ==
    \/ \E i \in 1..Len(discovered), entities \in SeqsUpTo(BatchEntities, MaxRels) :
          ExtractionReturns(i, entities)
    \/ RespondBatch

SpecBatch == InitBatch /\ [][NextBatch]_vars

\* the canonical names of the raw names company i's extraction returned
CanonicalOf(i) ==
    {CanonicalName[discovered[i].relationships[k].entity_name] :
        k \in 1..Len(discovered[i].relationships)}

\* the companies, by index, one of whose raw names canonicalizes to c
MentioningCompanies(c) == {i \in 1..Len(discovered) : c \in CanonicalOf(i)}

RECURSIVE SortedIndices(_)
SortedIndices(S) == IF S = {} THEN <<>> ELSE <<Min(S)>> \o SortedIndices(S \ {Min(S)})

\* the tickers of a set of companies in the order the companies are encountered
TickersInOrder(S) ==
    [k \in 1..Cardinality(S) |-> discovered[SortedIndices(S)[k]].ticker]

\* C6: when different companies mention raw names that canonicalize to one
\* canonical name, the result holds exactly one who_cares entity under that
\* name, whose exposure_count is the number of those companies (2 for two) and
\* whose exposed_companies are their tickers in the order encountered.
C6_CanonicalizeThenAggregate ==
    pc = "done" =>
        \A c \in UNION {CanonicalOf(i) : i \in 1..Len(discovered)} :
            Cardinality(MentioningCompanies(c)) >= 2 =>
                /\ Cardinality({k \in 1..Len(who_cares) : who_cares[k].entity_name = c}) = 1
                /\ \A k \in 1..Len(who_cares) :
                      who_cares[k].entity_name = c =>
                          /\ who_cares[k].exposure_count = Cardinality(MentioningCompanies(c))
                          /\ who_cares[k].exposed_companies
                                = TickersInOrder(MentioningCompanies(c))

\* the statement of C9 for the rule-based handler (checked under SpecBatch)
C9_RuleBased ==
    pc = "done" =>
        \A i, j \in 1..Len(discovered) :
            \A k \in 1..Len(discovered[i].relationships) :
                \A l \in 1..Len(discovered[j].relationships) :
                    discovered[i].relationships[k].entity_name
                        = discovered[j].relationships[l].entity_name
                    => companies[i].relationships[k].entity_name
                         = companies[j].relationships[l].entity_name

\* C6 witness: exactly two companies mention the entity, under different raw
\* names, and it is emitted once with both tickers.
C6_Witness ==
    /\ pc = "done"
    /\ \E k \in 1..Len(who_cares) :
          /\ who_cares[k].entity_name = "BDO"
          /\ who_cares[k].exposed_companies = <<"MVF", "TER">>
          /\ discovered[1].relationships = ToRelationships(<< <<"BDO Australia", "auditor">> >>)
          /\ discovered[2].relationships = ToRelationships(<< <<"BDO", "auditor">> >>)

----------------------------------------------------------------------------
(* SpecSemantic: the handler with semantic resolution (lines 1529-1619).   *)
(* Raw entities are extracted company by company, all distinct names are   *)
(* resolved in one call, then relationships are built and aggregated.      *)
(* In this specification `discovered` is companiesWithRawEntities: a       *)
(* sequence of [ticker, rawEntities], a raw entity being [name, type].     *)

\* what extractRawEntities may return for a company: <<name, type>>
SemEntities == {<<"BDO Australia", "auditor">>, <<"BDO", "advisor">>}

SemRawNames == {e[1] : e \in SemEntities}

\* the values the service may give a name; "" stands for every falsy value
SemValues == {"BDO", "BDO Australia", ""}

\* how the call of lines 1775-1809 can end: fetch throws, response.ok is false,
\* the text holds no {...}, JSON.parse throws, or JSON.parse yields `mappings`
FailureKinds == {"network_error", "not_ok", "no_json", "bad_json"}

\* the responses to a request for `names`: a failure, or an object that maps
\* any subset of the names
Responses(names) ==
    {[kind |-> f, mappings |-> <<>>] : f \in FailureKinds}
    \cup {[kind |-> "ok", mappings |-> m] :
            m \in UNION {[S -> SemValues] : S \in SUBSET SeqToSet(names)}}

ToRawEntities(entities) ==
    [k \in 1..Len(entities) |-> [name |-> entities[k][1], type |-> entities[k][2]]]

RECURSIVE RawMentions(_)
RawMentions(cs) ==
    IF cs = <<>> THEN <<>> ELSE Head(cs).rawEntities \o RawMentions(Tail(cs))

\* [...new Set(allRawEntities.map(e => e.entity.name))]
RECURSIVE Distinct(_)
Distinct(s) ==
    IF s = <<>> THEN <<>>
    ELSE SetAdd(Distinct(SubSeq(s, 1, Len(s) - 1)), s[Len(s)])

EntityNames(cs) ==
    Distinct([k \in 1..Len(RawMentions(cs)) |-> RawMentions(cs)[k].name])

\* new Map(entityNames.map(n => [n, n]))
IdentityMap(names) == [n \in SeqToSet(names) |-> n]

\* the Map resolveEntitiesSemantically returns; r is the outcome of its call
resolveEntitiesSemantically(names, r) ==
    IF Len(names) = 0 THEN <<>>
    ELSE IF r.kind = "ok" THEN r.mappings
    ELSE IdentityMap(names)

\* resolvedNames.get(entity.name) || entity.name
ResolvedName(resolved, n) ==
    IF n \in DOMAIN resolved /\ resolved[n] # "" THEN resolved[n] ELSE n

\* faulty variant of BuildRelationships: only the first entity of a company is
\* looked up in the map
BuildRelationshipsFirstOnly(resolved, rawEntities) ==
    [k \in 1..Len(rawEntities) |->
        [entity_name |-> IF k = 1 THEN ResolvedName(resolved, rawEntities[k].name)
                                  ELSE rawEntities[k].name,
         entity_type |-> mapEntityType(rawEntities[k].type),
         category    |-> rawEntities[k].type]]

\* rawEntities.map(entity => ({entity_name: resolvedName, ...}))
BuildRelationships(resolved, rawEntities) ==
    [k \in 1..Len(rawEntities) |->
        [entity_name |-> ResolvedName(resolved, rawEntities[k].name),
         entity_type |-> mapEntityType(rawEntities[k].type),
         category    |-> rawEntities[k].type]]

InitSemantic ==
    /\ pc = "extract"
    /\ discovered = <<>>
    /\ returned = {}
    /\ companies = <<>>
    /\ who_cares = <<>>
    /\ response = NoResponse
    /\ resolvedNames = <<>>
    /\ name = ""
    /\ normalized = ""
    /\ renormalized = ""
    /\ DiscoverIdle

\* one turn of the loop of lines 1566-1574: the next company's entities arrive
ExtractRawEntities(entities) ==
    /\ pc = "extract"
    /\ Len(discovered) < Len(RequestTickers)
    /\ Len(RawMentions(discovered)) + Len(entities) <= MaxMentions
    /\ discovered' = Append(discovered,
                            [ticker      |-> RequestTickers[Len(discovered) + 1],
                             rawEntities |-> ToRawEntities(entities)])
    /\ returned' = returned \cup {Len(discovered) + 1}
    /\ UNCHANGED <<pc, companies, who_cares, response, resolvedNames,
                   name, normalized, renormalized,
                   discoverVars, clientVars>>

\* lines 1578-1581 with no name to resolve: no call is made
ResolveNothing ==
    /\ pc = "extract"
    /\ Len(discovered) = Len(RequestTickers)
    /\ EntityNames(discovered) = <<>>
    /\ resolvedNames' = resolveEntitiesSemantically(<<>>, NoResponse)
    /\ pc' = "build"
    /\ UNCHANGED <<discovered, returned, companies, who_cares, response,
                   name, normalized, renormalized,
                   discoverVars, clientVars>>

\* lines 1578-1581: the resolution call ends with outcome r
Resolve(r) ==
    /\ pc = "extract"
    /\ Len(discovered) = Len(RequestTickers)
    /\ EntityNames(discovered) # <<>>
    /\ response' = r
    /\ resolvedNames' = resolveEntitiesSemantically(EntityNames(discovered), r)
    /\ pc' = "build"
    /\ UNCHANGED <<discovered, returned, companies, who_cares,
                   name, normalized, renormalized,
                   discoverVars, clientVars>>

\* lines 1585-1614
RespondSemantic ==
    /\ pc = "build"
    /\ companies' = [i \in 1..Len(discovered) |->
                        [ticker        |-> discovered[i].ticker,
                         relationships |-> BuildRelationships(resolvedNames,
                                                              discovered[i].rawEntities)]]
    /\ who_cares' = calculateWhoCaresSemantic(companies')
    /\ pc' = "done"
    /\ UNCHANGED <<discovered, returned, response, resolvedNames,
                   name, normalized, renormalized,
                   discoverVars, clientVars>>

NextSemantic ==
    \/ \E entities \in SeqsUpTo(SemEntities, MaxRels) : ExtractRawEntities(entities)
    \/ ResolveNothing
    \/ \E r \in Responses(EntityNames(discovered)) : Resolve(r)
    \/ RespondSemantic

SpecSemantic == InitSemantic /\ [][NextSemantic]_vars

\* normalizeEntityName tabulated over the raw names: the Tier 1/2 result
TierOneTwo == [raw \in SemRawNames |-> normalizeEntityName(raw)]

\* C7 (as claimed): every input name is a key of the map the canonicalizer returns.
C7_Total ==
    pc \in {"build", "done"} =>
        \A n \in SeqToSet(EntityNames(discovered)) : n \in DOMAIN resolvedNames

\* C9: within one batch the same raw name receives the same canonical name
\* wherever it is mentioned.
C9_Consistent ==
    pc = "done" =>
        \A i, j \in 1..Len(discovered) :
            \A k \in 1..Len(discovered[i].rawEntities) :
                \A l \in 1..Len(discovered[j].rawEntities) :
                    discovered[i].rawEntities[k].name = discovered[j].rawEntities[l].name
                        => companies[i].relationships[k].entity_name
                             = companies[j].relationships[l].entity_name

\* C9 witness: a raw name mentioned first by one company and second by another,
\* after a name that resolves to the same canonical name, is renamed by the map.
C9_Witness ==
    /\ pc = "done"
    /\ Len(discovered[1].rawEntities) = 1
    /\ Len(discovered[2].rawEntities) = 2
    /\ discovered[1].rawEntities[1].name = "BDO Australia"
    /\ discovered[2].rawEntities[1].name = "BDO"
    /\ discovered[2].rawEntities[2].name = "BDO Australia"
    /\ companies[1].relationships[1].entity_name = "BDO"
    /\ companies[2].relationships[2].entity_name = "BDO"

\* C10 (as claimed): a name the response omits ends with its Tier 1/2 result.
C10_PartialFallsBack ==
    pc = "done" =>
        \A i \in 1..Len(discovered) :
            \A k \in 1..Len(discovered[i].rawEntities) :
                LET raw == discovered[i].rawEntities[k].name IN
                (response.kind = "ok" /\ raw \notin DOMAIN response.mappings)
                    => companies[i].relationships[k].entity_name = TierOneTwo[raw]

\* what the code does with an omitted name: it is kept, under the raw name
C10_OmittedKeepsRawName ==
    pc = "done" =>
        \A i \in 1..Len(discovered) :
            \A k \in 1..Len(discovered[i].rawEntities) :
                LET raw == discovered[i].rawEntities[k].name IN
                (response.kind = "ok" /\ raw \notin DOMAIN response.mappings)
                    => companies[i].relationships[k].entity_name = raw

\* C11 (as claimed): when the resolution call fails outright, every name ends
\* with its Tier 1/2 result.
C11_FailureFallsBack ==
    pc = "done" =>
        \A i \in 1..Len(discovered) :
            \A k \in 1..Len(discovered[i].rawEntities) :
                response.kind \in FailureKinds
                    => companies[i].relationships[k].entity_name
                         = TierOneTwo[discovered[i].rawEntities[k].name]

\* what the code does after a failed call: the Map is the identity on the
\* names asked for, and every relationship keeps its raw name
C11_FailureKeepsRawNames ==
    pc = "done" /\ response.kind \in FailureKinds =>
        /\ resolvedNames = IdentityMap(EntityNames(discovered))
        /\ \A i \in 1..Len(discovered) :
              \A k \in 1..Len(discovered[i].rawEntities) :
                  companies[i].relationships[k].entity_name
                      = discovered[i].rawEntities[k].name

----------------------------------------------------------------------------
(* SpecDiscover: the whole DiscoverBatch handler of lines 18-94: request    *)
(* validation, choice of the discovery strategy by the API keys present,    *)
(* the per-company tasks of a strategy running concurrently under           *)
(* Promise.all, the fallback chain, normalization, aggregation, the answer. *)
(* A task first gathers research (researchWithPerplexity, gatherSearchData; *)
(* the Claude-only strategy has no such step), then asks for the entities.  *)
(* The research text only feeds the prompt; what the extraction call        *)
(* answers is any of ServiceOutcomes.                                       *)

\* the JavaScript value undefined as entity.name of a mention without a name;
\* no name an extraction returns is this string
Undefined == "<undefined>"

\* an element of req.body.companies: an object with a ticker, or null
Company(ticker) == [ticker |-> ticker, isNull |-> FALSE]

Requests ==
    {[method |-> "POST", isArray |-> TRUE,
      companies |-> [i \in 1..Len(RequestTickers) |-> Company(RequestTickers[i])]],
     [method |-> "POST", isArray |-> TRUE,
      companies |-> <<Company("MVF"), [ticker |-> "", isNull |-> TRUE]>>],
     [method |-> "POST", isArray |-> TRUE, companies |-> <<>>],
     [method |-> "POST", isArray |-> FALSE, companies |-> <<>>],
     [method |-> "GET", isArray |-> TRUE, companies |-> <<Company("MVF")>>]}

KeyConfigs == [perplexity : BOOLEAN, serpapi : BOOLEAN, claude : BOOLEAN]

\* the arrays of {name, type} an extraction answer may hold
ExtractionLists ==
    {<<>>,
     << <<"BDO Australia", "auditor">> >>,
     << <<"BDO", "auditor">>, <<"Acme Holdings Pty Ltd", "supplier">> >>,
     << <<" acme", "customer">> >>,
     << <<Undefined, "auditor">> >>}

\* how the call to the extraction service can end: fetch throws, response.ok
\* is false, the text holds no [...], JSON.parse throws, the array parsed holds
\* null (entity.name throws inside the try), or an array of objects is parsed
ExtractionFailures == {"network_error", "not_ok", "no_array", "bad_json", "null_element"}

ServiceOutcomes ==
    {[kind |-> f, entities |-> <<>>] : f \in ExtractionFailures}
    \cup {[kind |-> "ok", entities |-> es] : es \in ExtractionLists}

\* faulty variant of extractRelationshipsWithClaude: no try/catch around the call
ExtractUncaught(r) ==
    [threw         |-> r.kind \in {"network_error", "bad_json", "null_element"},
     relationships |-> IF r.kind = "ok" THEN ToRelationships(r.entities) ELSE <<>>]

\* what extractRelationshipsWithClaude (lines 405-437) and
\* discoverRelationshipsWithClaudeOnly (lines 528-559) do with the outcome r of
\* their call: the value returned, or an exception escaping
extractRelationshipsWithClaude(r) ==
    [threw         |-> FALSE,
     relationships |-> IF r.kind = "ok" THEN ToRelationships(r.entities) ELSE <<>>]

\* faulty variant of PrimaryStrategy: SerpAPI preferred to Perplexity
SerpApiFirst(k) ==
    IF k.serpapi /\ k.claude THEN "serpapi"
    ELSE IF k.perplexity /\ k.claude THEN "perplexity"
    ELSE IF k.claude THEN "claude"
    ELSE "none"

\* the strategy the keys select (lines 37, 63, 67, 70)
PrimaryStrategy(k) ==
    IF k.perplexity /\ k.claude THEN "perplexity"
    ELSE IF k.serpapi /\ k.claude THEN "serpapi"
    ELSE IF k.claude THEN "claude"
    ELSE "none"

\* the strategy of lines 45-51 and 55-61
FallbackStrategy(k) == IF k.serpapi THEN "serpapi" ELSE "claude"

\* searchMode as the strategy named s starts at handler position p
SearchMode(p, s) ==
    IF p = "primary" THEN (IF s = "claude" THEN "claude_only" ELSE s)
    ELSE s \o "_fallback"

\* faulty variant of ShouldFallBack: the fallback runs whatever was found
AlwaysFallBack(cs) == TRUE

\* totalRels === 0 (lines 42-43)
ShouldFallBack(cs) == TotalRelationships(cs) = 0

\* the tasks companies.map(async company => ...) creates for strategy s; reading
\* company.name of null throws before the first await and the task is rejected
NewTasks(cs, s) ==
    [i \in 1..Len(cs) |->
        [state   |-> IF cs[i].isNull THEN "rejected"
                     ELSE IF s = "claude" THEN "extract" ELSE "research",
         outcome  |-> "",
         entities |-> <<>>,
         value    |-> <<>>]]

\* faulty variant of PromiseAll: results pushed as the tasks complete
InCompletionOrder(cs, ts, order) ==
    [k \in 1..Len(order) |->
        [ticker |-> cs[order[k]].ticker, relationships |-> ts[order[k]].value]]

\* the array Promise.all resolves to: {...company, relationships} by input position
PromiseAll(cs, ts, order) ==
    [i \in 1..Len(cs) |-> [ticker |-> cs[i].ticker, relationships |-> ts[i].value]]

\* faulty variant of NormalizeThrows: a batch without relationships throws too
EmptyBatchThrows(cs) ==
    \/ TotalRelationships(cs) = 0
    \/ \E k \in 1..Len(Mentions(cs)) : Mentions(cs)[k].rel.entity_name = Undefined

\* name.trim() at line 111 throws a TypeError on a name that is not a string
NormalizeThrows(cs) ==
    \E k \in 1..Len(Mentions(cs)) : Mentions(cs)[k].rel.entity_name = Undefined

ErrorResult(status) == [status |-> status]

createFallbackBatchOutput(cs) ==
    [status      |-> 200,
     companies   |-> [i \in 1..Len(cs) |-> [ticker |-> cs[i].ticker, relationships |-> <<>>]],
     who_cares   |-> <<>>,
     stats       |-> [total_companies |-> Len(cs), total_relationships |-> 0,
                      multi_exposure_entities |-> 0],
     search_mode |-> "fallback"]

\* lines 74-89; the catch of lines 90-93 when normalization throws
Answer(n, cs, mode) ==
    IF NormalizeThrows(cs) THEN ErrorResult(500)
    ELSE LET normalizedCs == normalizeAllEntityNames(cs)
             whoCares     == calculateWhoCaresFromRelationships(normalizedCs)
         IN  [status      |-> 200,
              companies   |-> normalizedCs,
              who_cares   |-> whoCares,
              stats       |-> [total_companies |-> n,
                               total_relationships |-> TotalRelationships(normalizedCs),
                               multi_exposure_entities |-> Len(whoCares)],
              search_mode |-> mode]

\* the variables the DiscoverBatch handler does not use
restVars == <<discovered, returned, companies, who_cares, response, resolvedNames,
              name, normalized, renormalized>>

InitDiscover ==
    /\ pc = "request"
    /\ request \in Requests
    /\ keys \in KeyConfigs
    /\ invoked = <<>>
    /\ tasks = <<>>
    /\ completed = <<>>
    /\ result = NoResult
    /\ discovered = <<>>
    /\ returned = {}
    /\ companies = <<>>
    /\ who_cares = <<>>
    /\ response = NoResponse
    /\ resolvedNames = <<>>
    /\ name = ""
    /\ normalized = ""
    /\ renormalized = ""
    /\ ClientIdle

\* faulty variant of ValidRequest: the body of a POST is not looked at
AnyPost == request.method = "POST"

\* lines 19-28 let the request through
ValidRequest ==
    request.method = "POST" /\ request.isArray /\ Len(request.companies) > 0

\* the strategy being awaited
CurrentStrategy == invoked[Len(invoked)].strategy

Awaiting == pc \in {"primary", "fallback_in_try", "fallback_in_catch"}

\* `invoked` once the strategy being awaited has ended as `outcome`
Ended(outcome) == [invoked EXCEPT ![Len(invoked)].outcome = outcome]

\* how a strategy that resolved to cs ended
Found(cs) == IF TotalRelationships(cs) = 0 THEN "empty" ELSE "nonempty"

\* lines 19-28: 405 for another method, 400 without a non-empty array
Reject ==
    /\ pc = "request"
    /\ ~ValidRequest
    /\ result' = ErrorResult(IF request.method # "POST" THEN 405 ELSE 400)
    /\ pc' = "done"
    /\ UNCHANGED <<request, keys, invoked, tasks, completed, restVars, clientVars>>

\* lines 70-71: without the Claude key no call is made
RespondWithoutKeys ==
    /\ pc = "request"
    /\ ValidRequest
    /\ PrimaryStrategy(keys) = "none"
    /\ result' = createFallbackBatchOutput(request.companies)
    /\ pc' = "done"
    /\ UNCHANGED <<request, keys, invoked, tasks, completed, restVars, clientVars>>

\* lines 37-41, 63-69: the strategy the keys select is invoked
StartPrimary ==
    /\ pc = "request"
    /\ ValidRequest
    /\ PrimaryStrategy(keys) # "none"
    /\ invoked' = <<[strategy |-> PrimaryStrategy(keys), outcome |-> "running"]>>
    /\ tasks' = NewTasks(request.companies, PrimaryStrategy(keys))
    /\ completed' = <<>>
    /\ pc' = "primary"
    /\ UNCHANGED <<request, keys, result, restVars, clientVars>>

\* researchWithPerplexity / gatherSearchData of company i returns its text
\* (every query answered, refused or failed: lines 328-365, 468-490)
TaskResearches(i) ==
    /\ Awaiting
    /\ tasks[i].state = "research"
    /\ tasks' = [tasks EXCEPT ![i].state = "extract"]
    /\ UNCHANGED <<pc, request, keys, invoked, completed, result, restVars, clientVars>>

\* faulty variant of TaskValue: the tasks append to one array they share, and
\* a task returns what the array holds when it ends
SharedArray(ts, i, relationships) ==
    LET earlier == {j \in 1..Len(ts) : j # i /\ ts[j].value # <<>>}
    IN  IF earlier = {} THEN relationships
        ELSE ts[CHOOSE j \in earlier : TRUE].value \o relationships

\* `relationships` of `return { ...company, relationships }` (lines 311, 451,
\* 502): the array the task's own extraction call returned, a local of the task
TaskValue(ts, i, relationships) == relationships

\* the extraction call of company i ends with outcome r and the task settles;
\* `entities` keeps what the service answered to this task
TaskExtracts(i, r) ==
    /\ Awaiting
    /\ tasks[i].state = "extract"
    /\ LET v == extractRelationshipsWithClaude(r) IN
       tasks' = [tasks EXCEPT ![i] =
                    [state    |-> IF v.threw THEN "rejected" ELSE "done",
                     outcome  |-> r.kind,
                     entities |-> r.entities,
                     value    |-> TaskValue(tasks, i, v.relationships)]]
    /\ completed' = Append(completed, i)
    /\ UNCHANGED <<pc, request, keys, invoked, result, restVars, clientVars>>

\* faulty variant of AllDone: the join is over as soon as one task is fulfilled
AnyDone == \E i \in 1..Len(tasks) : tasks[i].state = "done"

\* await Promise.all(...) resumes: every task is fulfilled
AllDone == \A i \in 1..Len(tasks) : tasks[i].state = "done"

SomeRejected == \E i \in 1..Len(tasks) : tasks[i].state = "rejected"

\* the catch of line 53 is the one in force
InInnerTry ==
    \/ pc = "primary" /\ CurrentStrategy = "perplexity"
    \/ pc = "fallback_in_try"

\* lines 42-51: Perplexity found nothing, the fallback strategy is invoked
FallBack ==
    /\ pc = "primary"
    /\ CurrentStrategy = "perplexity"
    /\ AllDone
    /\ ShouldFallBack(PromiseAll(request.companies, tasks, completed))
    /\ invoked' = Append(Ended(Found(PromiseAll(request.companies, tasks, completed))),
                         [strategy |-> FallbackStrategy(keys), outcome |-> "running"])
    /\ tasks' = NewTasks(request.companies, FallbackStrategy(keys))
    /\ completed' = <<>>
    /\ pc' = "fallback_in_try"
    /\ UNCHANGED <<request, keys, result, restVars, clientVars>>

\* lines 53-62: Promise.all rejected inside the inner try, the fallback is invoked
CatchAndFallBack ==
    /\ InInnerTry
    /\ SomeRejected
    /\ invoked' = Append(Ended("failed"),
                         [strategy |-> FallbackStrategy(keys), outcome |-> "running"])
    /\ tasks' = NewTasks(request.companies, FallbackStrategy(keys))
    /\ completed' = <<>>
    /\ pc' = "fallback_in_catch"
    /\ UNCHANGED <<request, keys, result, restVars, clientVars>>

\* lines 90-93: Promise.all rejected outside the inner try
Abort ==
    /\ Awaiting
    /\ ~InInnerTry
    /\ SomeRejected
    /\ invoked' = Ended("failed")
    /\ result' = ErrorResult(500)
    /\ pc' = "done"
    /\ UNCHANGED <<request, keys, tasks, completed, restVars, clientVars>>

\* lines 74-89: the awaited strategy resolved and is not replaced
Respond ==
    /\ Awaiting
    /\ AllDone
    /\ LET cs == PromiseAll(request.companies, tasks, completed) IN
       /\ ~(pc = "primary" /\ CurrentStrategy = "perplexity" /\ ShouldFallBack(cs))
       /\ invoked' = Ended(Found(cs))
       /\ result' = Answer(Len(request.companies), cs, SearchMode(pc, CurrentStrategy))
    /\ pc' = "done"
    /\ UNCHANGED <<request, keys, tasks, completed, restVars, clientVars>>

\* the steps the handler takes by itself
HandlerStep ==
    \/ Reject
    \/ RespondWithoutKeys
    \/ StartPrimary
    \/ FallBack
    \/ CatchAndFallBack
    \/ Abort
    \/ Respond

\* the steps that take an answer of an external service
ServiceStep ==
    \/ \E i \in 1..Len(tasks) : TaskResearches(i)
    \/ \E i \in 1..Len(tasks), r \in ServiceOutcomes : TaskExtracts(i, r)

NextDiscover == HandlerStep \/ ServiceStep

SpecDiscover == InitDiscover /\ [][NextDiscover]_vars

----------------------------------------------------------------------------
(* Properties of the DiscoverBatch handler *)

\* the answer of company i's extraction held a mention without a name
Nameless(i) ==
    \E k \in 1..Len(tasks[i].value) : tasks[i].value[k].entity_name = Undefined

\* company i's extraction failed: the call failed or its answer was malformed
ExtractionFailed(i) == tasks[i].outcome \in ExtractionFailures \/ Nameless(i)

\* company i's extraction produced a non-empty, well-formed list
ExtractionSucceeded(i) ==
    tasks[i].outcome = "ok" /\ tasks[i].value # <<>> /\ ~Nameless(i)

\* the handler has answered after the strategy it awaited resolved
Answered == pc = "done" /\ tasks # <<>> /\ AllDone

\* C12 (as claimed): when one company's extraction fails and all others succeed,
\* the answer is a success in which every other company has a non-empty
\* relationship list.
C12_FaultIsolation ==
    Answered =>
        \A i \in 1..Len(tasks) :
            (ExtractionFailed(i) /\ \A j \in 1..Len(tasks) : j # i => ExtractionSucceeded(j))
                => /\ result.status = 200
                   /\ \A j \in 1..Len(tasks) :
                         j # i => result.companies[j].relationships # <<>>

\* what the code does: a failed call is isolated, a mention without a name is
\* not: it makes normalizeEntityName throw and the whole batch answers 500
C12_NamelessAborts ==
    Answered =>
        /\ (\E i \in 1..Len(tasks) : Nameless(i)) <=> result.status = 500
        /\ result.status = 200 =>
              \A j \in 1..Len(tasks) :
                  Len(result.companies[j].relationships) = Len(tasks[j].value)

\* C13: whatever the extraction service answers, the per-company extraction
\* call returns a list and no exception escapes it: a task whose call has
\* ended is fulfilled, with the empty list when the call failed or found
\* nothing; only a company that is not an object makes a task reject.
C13_SoftFailing ==
    \A i \in 1..Len(tasks) :
        /\ tasks[i].outcome # "" =>
              /\ tasks[i].state = "done"
              /\ tasks[i].outcome \in ExtractionFailures => tasks[i].value = <<>>
        /\ tasks[i].state = "rejected" => request.companies[i].isNull

\* C13 witness: three calls have ended, by a network error, by unparseable
\* JSON and by an empty array, and the strategy resolved with three empty lists.
C13_Witness ==
    /\ Len(tasks) = 3
    /\ AllDone
    /\ tasks[1].outcome = "network_error"
    /\ tasks[2].outcome = "bad_json"
    /\ tasks[3].outcome = "ok"
    /\ PromiseAll(request.companies, tasks, completed)
          = EmptyBatch(RequestTickers)

\* every company of a valid request ended with zero relationships: no strategy
\* could be invoked, or the last strategy invoked resolved with empty lists
EndedEmpty ==
    /\ pc = "done"
    /\ ValidRequest
    /\ \/ tasks = <<>>
       \/ AllDone /\ \A i \in 1..Len(tasks) : tasks[i].value = <<>>

\* C14: a batch in which every company ends with zero relationships is answered
\* with a success holding every input company in input order with an empty
\* list, who_cares = [], total_relationships = 0 and multi_exposure_entities = 0.
C14_EmptyIsNotAnError ==
    EndedEmpty =>
        /\ result.status = 200
        /\ result.companies = [i \in 1..Len(request.companies) |->
                                  [ticker        |-> request.companies[i].ticker,
                                   relationships |-> <<>>]]
        /\ result.who_cares = <<>>
        /\ result.stats = [total_companies         |-> Len(request.companies),
                           total_relationships     |-> 0,
                           multi_exposure_entities |-> 0]

\* C14 witness: Perplexity and then the fallback strategy both found nothing,
\* by failed calls and by empty answers, and the handler has answered.
C14_Witness ==
    /\ EndedEmpty
    /\ Len(invoked) = 2
    /\ invoked[1].outcome = "empty"
    /\ invoked[2].outcome = "empty"
    /\ \E i, j \in 1..Len(tasks) :
          tasks[i].outcome = "ok" /\ tasks[j].outcome \in ExtractionFailures

\* SpecDiscoverLive: the event loop runs every continuation of the handler that
\* is ready (weak fairness of HandlerStep); nothing obliges an external service
\* to answer, and no call of lines 330, 406, 529 carries a timeout or an abort
\* signal, so ServiceStep has no fairness condition.
SpecDiscoverLive == SpecDiscover /\ WF_vars(HandlerStep)

\* C17 (as claimed): every request is eventually answered, even when an
\* external service never answers.
C17_EventuallyAnswered == <>(pc = "done")

\* what each company's own task returned, by input position
ByInputPosition ==
    [i \in 1..Len(tasks) |->
        [ticker |-> request.companies[i].ticker, relationships |-> tasks[i].value]]

\* C18: the companies and the who_cares list of a successful answer are
\* determined by the per-company extraction results alone, whatever the order
\* in which the tasks completed: the companies stand in input order, each with
\* its own normalized relationships, and who_cares is the aggregate of exactly
\* that list.
C18_TimingIndependent ==
    (Answered /\ result.status = 200) =>
        /\ \A i \in 1..Len(tasks) : result.companies[i].ticker = request.companies[i].ticker
        /\ result.companies = normalizeAllEntityNames(ByInputPosition)
        /\ result.who_cares = calculateWhoCaresFromRelationships(result.companies)

\* C18 witness: the tasks completed in the order 3, 1, 2 and two companies
\* share an entity.
C18_Witness ==
    /\ Answered
    /\ result.status = 200
    /\ completed = <<3, 1, 2>>
    /\ result.who_cares # <<>>
    /\ result.companies[1].relationships # result.companies[3].relationships

C20_AfterFailure ==
    /\ Len(invoked) = 2
    /\ invoked[1] = [strategy |-> "perplexity", outcome |-> "failed"]

----------------------------------------------------------------------------
(* Tier 1 lookup order of normalizeEntityName, checked under SpecNorm *)

\* the first table row whose alias is contained in lowerName or contains it
FirstContainedEitherWay(lowerName) ==
    LET hits == {i \in 1..Len(knownEntities) :
                    \/ Includes(lowerName, knownEntities[i][1])
                    \/ Includes(knownEntities[i][1], lowerName)}
    IN  IF hits = {} THEN 0 ELSE Min(hits)

\* C19 (as claimed): an exact case-insensitive match of the trimmed name wins;
\* otherwise the first alias in table order that the lower-cased name contains
\* or that contains the lower-cased name decides; Tier 2 is taken only if
\* neither applies.
C19_LookupOrder ==
    pc = "normalized" =>
        LET lowerName == toLowerCase(Trim(name))
            exact     == AliasIndex(lowerName)
            either    == FirstContainedEitherWay(lowerName)
        IN  normalized = IF exact # 0 THEN knownEntities[exact][2]
                         ELSE IF either # 0 THEN knownEntities[either][2]
                         ELSE NormalizeGeneric(Trim(name))

\* what the code does: an exact match wins, otherwise the first alias that the
\* name contains; an alias that merely contains the name is never looked for
C19_ContainsOnly ==
    pc = "normalized" =>
        LET lowerName == toLowerCase(Trim(name))
            exact     == AliasIndex(lowerName)
        IN  /\ exact # 0 => normalized = knownEntities[exact][2]
            /\ (exact = 0 /\ normalized \in CanonicalNames /\ lowerName # toLowerCase(normalized))
                  => \E i \in 1..Len(knownEntities) :
                        /\ knownEntities[i][2] = normalized
                        /\ Includes(lowerName, knownEntities[i][1])
                        /\ \A j \in 1..(i - 1) : ~Includes(lowerName, knownEntities[j][1])
            /\ (exact = 0 /\ \A i \in 1..Len(knownEntities) :
                                ~Includes(lowerName, knownEntities[i][1]))
                  => normalized = NormalizeGeneric(Trim(name))

\* the code and the claimed order part on a name that an earlier alias contains:
\* "Citicorp Nominees" is inside "citicorp nominees pty limited" but becomes
\* "Citi", the canonical name of the first alias it contains
C19_ContainedNameDiffers ==
    /\ pc = "normalized"
    /\ name = "Citicorp Nominees"
    /\ normalized = "Citi"
    /\ knownEntities[FirstContainedEitherWay(toLowerCase(name))][2] = "Citicorp Nominees"

----------------------------------------------------------------------------
(* SpecWhoCares: the route POST /api/who-cares (src/unnamed/part_001).     *)
(* A batch of companies with relationships is built as in SpecAgg; the body *)
(* posted is either the documented one ({companies: [...]}) or the one the  *)
(* route reads ({relationships: [...]}, the companies' relationships in     *)
(* order: a Relationship has no field for the company it belongs to).       *)

WhoCaresEntities ==
    {<<"BDO Group", "auditor">>, <<"BDO", "auditor">>,
     <<"BDO", "advisor">>, <<"KPMG", "auditor">>}

\* the alternatives of the pattern of line 101
suffixWords ==
    {"pty", "ltd", "inc", "corp", "corporation", "group", "holdings", "holding",
     "management", "asset", "bank", "banking", "fund", "partners", "partner", "llc", "llp"}

\* the position just behind a match of /\s+(pty|...|llp)(\s|$)/i that starts at
\* position i of s, or 0: the blanks from i on, one of the words, then one
\* blank (consumed) or the end
SuffixWordEnd(s, i) ==
    LET n    == RunLength(s, i, "space")
        ends == {i + n + Len(w) : w \in {w \in suffixWords : LitAt(s, i + n, w)}}
        ok   == {e \in ends : e = Len(s) + 1 \/ IsSpace(Char(s, e))}
    IN  IF n = 0 \/ ok = {} THEN 0
        ELSE IF Max(ok) = Len(s) + 1 THEN Max(ok) ELSE Max(ok) + 1

\* replace(/.../gi, ''): every match, left to right, from position i on
RECURSIVE RemoveSuffixWords(_, _)
RemoveSuffixWords(s, i) ==
    IF i > Len(s) THEN ""
    ELSE IF SuffixWordEnd(s, i) # 0 THEN RemoveSuffixWords(s, SuffixWordEnd(s, i))
    ELSE Char(s, i) \o RemoveSuffixWords(s, i + 1)

\* normalizeEntityName of the route (lines 98-104)
normalizeEntityNameRoute(n) ==
    Trim(CollapseSpaces(RemoveSuffixWords(toLowerCase(n), 1)))

\* the keys of the names a relationship may carry
RouteKey == [raw \in {e[1] : e \in WhoCaresEntities} |-> normalizeEntityNameRoute(raw)]

\* Map.prototype.set on a Map kept as a sequence of [key, value]: a new key is
\* appended, an existing key keeps its place and takes the new value
MapSet(m, k, v) ==
    IF MapIndex(m, k) = 0 THEN Append(m, [key |-> k, value |-> v])
    ELSE [m EXCEPT ![MapIndex(m, k)].value = v]

\* lines 41-54: entityMap after the relationships rels
RECURSIVE GroupByEntity(_, _)
GroupByEntity(m, rels) ==
    IF rels = <<>> THEN m
    ELSE LET rel    == Head(rels)
             key    == RouteKey[rel.entity_name]
             i      == MapIndex(m, key)
             relMap == IF i = 0 THEN <<>> ELSE m[i].value
         IN  GroupByEntity(MapSet(m, key, MapSet(relMap, rel.category, rel)), Tail(rels))

\* lines 59-86 for one entry of entityMap
ToExposureEntity(entry) ==
    LET relMap   == entry.value
        firstRel == relMap[1].value
    IN  [entity_name       |-> firstRel.entity_name,
         entity_type       |-> firstRel.entity_type,
         category          |-> firstRel.category,
         exposure_count    |-> Len(relMap),
         exposed_companies |-> <<>>,
         exposure_details  |-> [k \in 1..Len(relMap) |->
                                   [ticker |-> "UNKNOWN",
                                    relationship_type |-> relMap[k].value.category]]]

\* relMap.size >= 2
InTwoCategories(entry) == Len(entry.value) >= MinExposure

findMultiExposureEntities(rels) ==
    LET kept == SelectSeq(GroupByEntity(<<>>, rels), InTwoCategories)
    IN  SortByExposure([i \in 1..Len(kept) |-> ToExposureEntity(kept[i])])

\* the route, lines 16-35: 400 unless body.relationships is an array
PostWhoCares(documentedBody) ==
    /\ pc = "input"
    /\ request' = [documented |-> documentedBody]
    /\ IF documentedBody
       THEN /\ result' = ErrorResult(400)
            /\ who_cares' = <<>>
       ELSE /\ result' = [status |-> 200]
            /\ who_cares' = findMultiExposureEntities(
                               [k \in 1..Len(Mentions(companies)) |->
                                   Mentions(companies)[k].rel])
    /\ pc' = "done"
    /\ UNCHANGED <<discovered, returned, companies, response, resolvedNames,
                   name, normalized, renormalized, keys, invoked, tasks, completed, clientVars>>

NextWhoCares ==
    \/ \E i \in 1..Len(companies), e \in WhoCaresEntities :
          AddRelationship(i, e[1], e[2])
    \/ \E documentedBody \in BOOLEAN : PostWhoCares(documentedBody)

SpecWhoCares == InitAgg /\ [][NextWhoCares]_vars

\* the tickers of the companies connected to the entity filed under key
CompaniesOfEntity(key) ==
    {Mentions(companies)[k].ticker :
        k \in {k \in 1..Len(Mentions(companies)) :
                  RouteKey[Mentions(companies)[k].rel.entity_name] = key}}

EntityKeys ==
    {RouteKey[Mentions(companies)[k].rel.entity_name] : k \in 1..Len(Mentions(companies))}

\* C16 (as claimed): the answer holds exactly the entities connected to two or
\* more distinct companies, each with exposure_count = the number of those
\* companies, exposed_companies = their tickers and one exposure_details entry
\* per exposed company.
C16_WhoCaresRoute ==
    (pc = "done" /\ result.status = 200) =>
        /\ \A key \in EntityKeys :
              (\E i \in 1..Len(who_cares) : RouteKey[who_cares[i].entity_name] = key)
                  <=> Cardinality(CompaniesOfEntity(key)) >= 2
        /\ \A i \in 1..Len(who_cares) :
              LET connected == CompaniesOfEntity(RouteKey[who_cares[i].entity_name]) IN
              /\ who_cares[i].exposure_count = Cardinality(connected)
              /\ SeqToSet(who_cares[i].exposed_companies) = connected
              /\ {who_cares[i].exposure_details[k].ticker :
                     k \in 1..Len(who_cares[i].exposure_details)} = connected

\* what the route does: an entity is emitted when it occurs under two or more
\* categories, exposure_count counts the categories, exposed_companies is
\* empty and every ticker is 'UNKNOWN'
C16_CountsCategories ==
    (pc = "done" /\ result.status = 200) =>
        /\ \A key \in EntityKeys :
              (\E i \in 1..Len(who_cares) : RouteKey[who_cares[i].entity_name] = key)
                  <=> Cardinality({Mentions(companies)[k].rel.category :
                                      k \in {k \in 1..Len(Mentions(companies)) :
                                                RouteKey[Mentions(companies)[k].rel.entity_name] = key}})
                        >= 2
        /\ \A i \in 1..Len(who_cares) :
              /\ who_cares[i].exposed_companies = <<>>
              /\ \A k \in 1..Len(who_cares[i].exposure_details) :
                    who_cares[i].exposure_details[k].ticker = "UNKNOWN"

\* two companies name the same auditor and the route answers with no entity
C16_SharedAuditorMissed ==
    /\ pc = "done"
    /\ result.status = 200
    /\ companies[1].relationships = <<Relationship("BDO Group", "auditor")>>
    /\ companies[2].relationships = <<Relationship("BDO", "auditor")>>
    /\ companies[3].relationships = <<>>
    /\ who_cares = <<>>

\* the documented body, which has no `relationships`, is answered with 400
C16_DocumentedBodyRejected ==
    pc = "done" /\ request.documented => result.status = 400

----------------------------------------------------------------------------
(* SpecParse: the ParseBatch handler of src/api/parse-companies.ts, lines   *)
(* 287-339, with parsePlainText, parsePreProcessorJson, findTicker and      *)
(* cleanCompanyName.  A company is [name, ticker, is_listed].               *)

\* most lines of a plain-text input
MaxLines == 2

\* the table of lines 151-285 in source order, <<name, ticker>>
KNOWN_TICKERS ==
    << <<"australian securities exchange", "ASX">>,
       <<"asx", "ASX">>,
       <<"asx limited", "ASX">>,
       <<"computershare", "CPU">>,
       <<"link administration", "LNK">>,
       <<"iress", "IRE">>,
       <<"westpac", "WBC">>,
       <<"westpac banking corporation", "WBC">>,
       <<"commonwealth bank", "CBA">>,
       <<"commonwealth bank of australia", "CBA">>,
       <<"cba", "CBA">>,
       <<"national australia bank", "NAB">>,
       <<"nab", "NAB">>,
       <<"anz", "ANZ">>,
       <<"anz bank", "ANZ">>,
       <<"australia and new zealand banking group", "ANZ">>,
       <<"macquarie", "MQG">>,
       <<"macquarie group", "MQG">>,
       <<"healius", "HLS">>,
       <<"sonic healthcare", "SHL">>,
       <<"ramsay health care", "RHC">>,
       <<"ramsay healthcare", "RHC">>,
       <<"monash ivf", "MVF">>,
       <<"monash ivf group", "MVF">>,
       <<"australian clinical labs", "ACL">>,
       <<"integral diagnostics", "IDX">>,
       <<"woolworths", "WOW">>,
       <<"woolworths group", "WOW">>,
       <<"coles", "COL">>,
       <<"coles group", "COL">>,
       <<"wesfarmers", "WES">>,
       <<"jb hi-fi", "JBH">>,
       <<"harvey norman", "HVN">>,
       <<"bhp", "BHP">>,
       <<"bhp group", "BHP">>,
       <<"rio tinto", "RIO">>,
       <<"fortescue", "FMG">>,
       <<"fortescue metals", "FMG">>,
       <<"fortescue metals group", "FMG">>,
       <<"south32", "S32">>,
       <<"newcrest", "NCM">>,
       <<"northern star", "NST">>,
       <<"pilbara minerals", "PLS">>,
       <<"mineral resources", "MIN">>,
       <<"igo", "IGO">>,
       <<"liontown resources", "LTR">>,
       <<"telstra", "TLS">>,
       <<"telstra corporation", "TLS">>,
       <<"optus", "SGT">>,
       <<"singtel optus", "SGT">>,
       <<"tpg", "TPG">>,
       <<"tpg telecom", "TPG">>,
       <<"qbe", "QBE">>,
       <<"qbe insurance", "QBE">>,
       <<"iag", "IAG">>,
       <<"insurance australia group", "IAG">>,
       <<"suncorp", "SUN">>,
       <<"suncorp group", "SUN">>,
       <<"medibank", "MPL">>,
       <<"medibank private", "MPL">>,
       <<"nib", "NHF">>,
       <<"nib holdings", "NHF">>,
       <<"goodman group", "GMG">>,
       <<"goodman", "GMG">>,
       <<"stockland", "SGP">>,
       <<"mirvac", "MGR">>,
       <<"mirvac group", "MGR">>,
       <<"dexus", "DXS">>,
       <<"scentre group", "SCG">>,
       <<"vicinity centres", "VCX">>,
       <<"charter hall", "CHC">>,
       <<"charter hall group", "CHC">>,
       <<"wisetech", "WTC">>,
       <<"wisetech global", "WTC">>,
       <<"xero", "XRO">>,
       <<"rea group", "REA">>,
       <<"seek", "SEK">>,
       <<"carsales", "CAR">>,
       <<"carsales.com", "CAR">>,
       <<"technology one", "TNE">>,
       <<"technologyone", "TNE">>,
       <<"pro medicus", "PME">>,
       <<"altium", "ALU">>,
       <<"qantas", "QAN">>,
       <<"qantas airways", "QAN">>,
       <<"brambles", "BXB">>,
       <<"transurban", "TCL">>,
       <<"transurban group", "TCL">>,
       <<"aurizon", "AZJ">>,
       <<"aurizon holdings", "AZJ">>,
       <<"woodside", "WDS">>,
       <<"woodside energy", "WDS">>,
       <<"santos", "STO">>,
       <<"origin energy", "ORG">>,
       <<"origin", "ORG">>,
       <<"agl", "AGL">>,
       <<"agl energy", "AGL">>,
       <<"aristocrat", "ALL">>,
       <<"aristocrat leisure", "ALL">>,
       <<"amcor", "AMC">>,
       <<"cochlear", "COH">>,
       <<"csl", "CSL">>,
       <<"csl limited", "CSL">>,
       <<"resmed", "RMD">>,
       <<"james hardie", "JHX">>,
       <<"james hardie industries", "JHX">>,
       <<"orica", "ORI">>,
       <<"incitec pivot", "IPL">>,
       <<"bluescope", "BSL">>,
       <<"bluescope steel", "BSL">> >>

\* findTicker (lines 396-417); "" stands for null and for a ticker not provided
findTicker(entityName, providedTicker) ==
    LET normalizedName == Trim(toLowerCase(entityName))
        exact   == {i \in 1..Len(KNOWN_TICKERS) : KNOWN_TICKERS[i][1] = normalizedName}
        partial == {i \in 1..Len(KNOWN_TICKERS) :
                       \/ Includes(normalizedName, KNOWN_TICKERS[i][1])
                       \/ Includes(KNOWN_TICKERS[i][1], normalizedName)}
    IN  IF providedTicker # "" THEN toUpperCase(providedTicker)
        ELSE IF exact # {} THEN KNOWN_TICKERS[Min(exact)][2]
        ELSE IF partial # {} THEN KNOWN_TICKERS[Min(partial)][2]
        ELSE ""

\* /\s+(limited|ltd|pty|inc|corporation|corp)\.?$/i, one pattern per alternative
cleanPatterns ==
    [w \in {"limited", "ltd", "pty", "inc", "corporation", "corp"} |->
        <<Ws(1), Lit(w), Opt("."), AtEnd>>]

\* cleanCompanyName (lines 419-424): the pattern is anchored at the end, so at
\* most one alternative matches and a single suffix is removed
cleanCompanyName(n) ==
    LET hits == {w \in DOMAIN cleanPatterns : ReplaceFirst(n, cleanPatterns[w]) # n}
    IN  Trim(CollapseSpaces(IF hits = {} THEN n
                             ELSE ReplaceFirst(n, cleanPatterns[CHOOSE w \in hits : TRUE])))

\* text.split('\n')
RECURSIVE SplitLines(_)
SplitLines(text) ==
    LET n == RunLength(text, 1, "line") IN
    IF n = Len(text) THEN <<text>>
    ELSE <<SubSeq(text, 1, n)>> \o SplitLines(SubSeq(text, n + 2, Len(text)))

\* line.match(/^(.+?)\s*\(([A-Z]{2,5})\)\s*(.*)$/): the lengths k of a first
\* group after which blanks, "(", two to five capitals and ")" follow; the
\* lazy first group takes the least
TickerPrefixes(line) ==
    {k \in 1..Len(line) :
        LET open == k + 1 + RunLength(line, k + 1, "space")
            caps == RunLength(line, open + 1, "upper")
        IN  /\ open <= Len(line) /\ Char(line, open) = "("
            /\ caps \in 2..5
            /\ open + caps + 1 <= Len(line) /\ Char(line, open + caps + 1) = ")"}

\* the body of the loop of parsePlainText (lines 447-484) for one line
parsePlainLine(line) ==
    IF TickerPrefixes(line) # {}
    THEN LET k    == Min(TickerPrefixes(line))
             open == k + 1 + RunLength(line, k + 1, "space")
             caps == RunLength(line, open + 1, "upper")
         IN  [name      |-> cleanCompanyName(Trim(SubSeq(line, 1, k))),
              ticker    |-> toUpperCase(SubSeq(line, open + 1, open + caps)),
              is_listed |-> TRUE]
    ELSE [name      |-> cleanCompanyName(Trim(line)),
          ticker    |-> findTicker(Trim(line), ""),
          is_listed |-> findTicker(Trim(line), "") # ""]

IsBlank(line) == Trim(line) = ""

NotBlank(line) == ~IsBlank(line)

\* parsePlainText (lines 443-487)
parsePlainText(text) ==
    LET lines == SelectSeq(SplitLines(text), NotBlank)
    IN  [i \in 1..Len(lines) |-> parsePlainLine(lines[i])]


\* a signal of the pre-processor output; "" stands for a field that is absent
Signal(entity_name, entity_ticker) ==
    [entity_name |-> entity_name, entity_ticker |-> entity_ticker]

\* the JSON documents among the inputs, with the arrays they denote
JsonDocuments ==
    << <<"[]", <<>> >>,
       <<"[{\"entity_name\":\"Mayne Pharma Group Limited\",\"entity_ticker\":\"myx\"}]",
         <<Signal("Mayne Pharma Group Limited", "myx")>> >>,
       <<"[{\"entity_name\":\"Acme Widgets Pty Ltd\"},{\"summary\":\"covenant breach\"}]",
         <<Signal("Acme Widgets Pty Ltd", ""), Signal("", "")>> >> >>

\* JSON.parse (line 347): a text that is not one of the documents is not JSON
JSONparse(jsonText) ==
    LET hits == {i \in 1..Len(JsonDocuments) : JsonDocuments[i][1] = jsonText}
    IN  IF hits = {} THEN [threw |-> TRUE, signals |-> <<>>]
        ELSE [threw |-> FALSE, signals |-> JsonDocuments[CHOOSE i \in hits : TRUE][2]]

HasEntityName(signal) == signal.entity_name # ""

signalCompany(signal) ==
    [name      |-> cleanCompanyName(signal.entity_name),
     ticker    |-> findTicker(signal.entity_name, signal.entity_ticker),
     is_listed |-> findTicker(signal.entity_name, signal.entity_ticker) # ""]

\* parsePreProcessorJson (lines 343-394): throws on invalid JSON, skips the
\* signals without entity_name
parsePreProcessorJson(jsonText) ==
    LET parsed == JSONparse(jsonText)
        named  == SelectSeq(parsed.signals, HasEntityName)
    IN  [threw     |-> parsed.threw,
         companies |-> [i \in 1..Len(named) |-> signalCompany(named[i])]]

\* req.body.text: a string, or a value of another type
Text(value)  == [type |-> "string", value |-> value]
NotAString   == {[type |-> "undefined", value |-> ""], [type |-> "number", value |-> "42"]}

ParseLines ==
    {"Mayne Pharma (MYX) covenant breach",
     "BHP Group Limited",
     "BHP Billiton (BHP)",
     "Acme Widgets Pty Ltd",
     "   "} \cup {JsonDocuments[i][1] : i \in 1..Len(JsonDocuments)} \cup {"[oops"}

\* the texts of one to n lines
RECURSIVE TextsOf(_)
TextsOf(n) ==
    IF n = 1 THEN ParseLines
    ELSE TextsOf(n - 1) \cup {t \o "\n" \o l : t \in TextsOf(n - 1), l \in ParseLines}

ParseRequests ==
    {[method |-> "POST", text |-> Text(t)] : t \in TextsOf(MaxLines) \cup {""}}
    \cup {[method |-> "POST", text |-> x] : x \in NotAString}
    \cup {[method |-> "GET", text |-> Text("BHP Group Limited")]}

IsListed(c) == c.is_listed /\ c.ticker # ""

IsPrivate(c) == ~IsListed(c)

ExcludedName(c) == c.name

\* lines 312-331: the listed companies are returned, however few
ParseSuccess(parsed) ==
    [status         |-> 200,
     companies      |-> SelectSeq(parsed, IsListed),
     excluded       |-> [i \in 1..Len(SelectSeq(parsed, IsPrivate)) |->
                             SelectSeq(parsed, IsPrivate)[i].name],
     total_parsed   |-> Len(parsed)]

\* the handler of lines 287-339
ParseBatch(req) ==
    IF req.method # "POST" THEN [status |-> 405, error |-> "Method not allowed"]
    ELSE IF req.text.type # "string" \/ req.text.value = ""
    THEN [status |-> 400, error |-> "Text input is required"]
    ELSE LET trimmedText == Trim(req.text.value)
             json        == parsePreProcessorJson(trimmedText)
         IN  IF Len(trimmedText) >= 1 /\ Char(trimmedText, 1) = "["
             THEN IF json.threw
                  THEN [status |-> 500, error |-> "Failed to parse companies"]
                  ELSE ParseSuccess(json.companies)
             ELSE ParseSuccess(parsePlainText(trimmedText))

InitParse ==
    /\ pc = "request"
    /\ request \in ParseRequests
    /\ result = NoResult
    /\ keys = NoKeys
    /\ invoked = <<>>
    /\ tasks = <<>>
    /\ completed = <<>>
    /\ discovered = <<>>
    /\ returned = {}
    /\ companies = <<>>
    /\ who_cares = <<>>
    /\ response = NoResponse
    /\ resolvedNames = <<>>
    /\ name = ""
    /\ normalized = ""
    /\ renormalized = ""
    /\ ClientIdle

\* the handler runs on the request
HandleParse ==
    /\ pc = "request"
    /\ result' = ParseBatch(request)
    /\ pc' = "done"
    /\ UNCHANGED <<request, keys, invoked, tasks, completed, restVars, clientVars>>

\* the client sends its next request
NextParseRequest ==
    /\ pc = "done"
    /\ request' \in ParseRequests
    /\ result' = NoResult
    /\ pc' = "request"
    /\ UNCHANGED <<keys, invoked, tasks, completed, restVars, clientVars>>

NextParse == HandleParse \/ NextParseRequest

SpecParse == InitParse /\ [][NextParse]_vars

\* the request was a POST whose text is missing, empty or not a string
TextMissing == request.text.type # "string" \/ request.text.value = ""

\* the handler has answered a POST
ParseAnswered == pc = "done" /\ request.method = "POST"

\* C15: ParseBatch never answers with a success that carries an empty company
\* list: a text that is empty, is not a string, or yields zero companies gets
\* an error outcome.
C15_EmptyYieldIsAnError ==
    ParseAnswered => ~(result.status = 200 /\ result.companies = <<>>)

\* C15, the part the handler keeps: a missing, empty or non-string text is
\* answered with status 400.
C15_MissingTextRejected ==
    (ParseAnswered /\ TextMissing) => result.status = 400

\* C15, what the handler does on a text that yields no listed company: status
\* 200 with an empty list, every parsed company among the excluded ones.
C15_EmptyYieldSucceeds ==
    /\ ParseAnswered
    /\ request.text = Text("Acme Widgets Pty Ltd")
    /\ result.status = 200
    /\ result.companies = <<>>
    /\ result.excluded = <<"Acme Widgets Pty">>

\* C15: a text of blanks only is also answered with status 200 and no company.
C15_BlankTextSucceeds ==
    /\ ParseAnswered
    /\ request.text = Text("   ")
    /\ result.status = 200
    /\ result.companies = <<>>
    /\ result.total_parsed = 0


\* the three keys are configured
AllKeys == keys.perplexity /\ keys.serpapi /\ keys.claude

\* the strategies invoked so far, in order of invocation
Attempted == [k \in 1..Len(invoked) |-> invoked[k].strategy]

\* C21 (as claimed): with the three keys configured the strategies are tried in
\* the order Perplexity, SerpAPI, Claude-only, each one after all earlier ones
\* found nothing, so a batch that ended with zero relationships has tried all
\* three.
C21_ChainExhaustion ==
    (EndedEmpty /\ AllKeys) => Attempted = <<"perplexity", "serpapi", "claude">>

\* C21, what the handler does: with the three keys the chain is Perplexity and
\* then SerpAPI; Claude-only is never invoked.
C21_ChainStopsAtSerpApi ==
    AllKeys =>
        /\ Attempted \in {<<>>, <<"perplexity">>, <<"perplexity", "serpapi">>}
        /\ EndedEmpty => Attempted = <<"perplexity", "serpapi">>

\* C21: a batch ended empty with the three keys configured, Perplexity and
\* SerpAPI both found nothing and Claude-only was not tried.
C21_ClaudeOnlyNeverTried ==
    /\ EndedEmpty
    /\ AllKeys
    /\ Attempted = <<"perplexity", "serpapi">>
    /\ invoked[1].outcome = "empty"
    /\ invoked[2].outcome = "empty"
    /\ result.search_mode = "serpapi_fallback"


\* C22: the first strategy invoked is fixed by the keys alone: Perplexity when
\* the Perplexity and Claude keys are present, else SerpAPI when the SerpAPI and
\* Claude keys are present, else Claude-only when the Claude key is present;
\* without the Claude key a valid request is answered with the empty fallback
\* result and no strategy is invoked and no task created.
C22_SelectionByKeys ==
    /\ invoked # <<>> =>
          /\ keys.claude
          /\ invoked[1].strategy =
                IF keys.perplexity THEN "perplexity"
                ELSE IF keys.serpapi THEN "serpapi"
                ELSE "claude"
    /\ (pc # "request" /\ ValidRequest /\ keys.claude) => invoked # <<>>
    /\ (pc = "done" /\ ValidRequest /\ ~keys.claude) =>
          /\ invoked = <<>>
          /\ tasks = <<>>
          /\ result = createFallbackBatchOutput(request.companies)

\* C22 witness: with the three keys Perplexity was invoked first, and the
\* request has been answered.
C22_Witness ==
    /\ pc = "done"
    /\ AllKeys
    /\ invoked # <<>>
    /\ invoked[1].strategy = "perplexity"
    /\ result.status = 200

\* C22: with the Perplexity and SerpAPI keys but no Claude key the request was
\* answered with the empty fallback result.
C22_NoClaudeKey ==
    /\ pc = "done"
    /\ ValidRequest
    /\ keys = [perplexity |-> TRUE, serpapi |-> TRUE, claude |-> FALSE]
    /\ result.search_mode = "fallback"


\* canonicalization was started: the strategy awaited last resolved
Canonicalized ==
    pc = "done" /\ invoked # <<>> /\ invoked[Len(invoked)].outcome # "failed"

\* C23: canonicalization starts only after the extraction task of every company
\* of the batch has completed, with relationships or degraded to the empty
\* list, and aggregation only after canonicalization: the answer holds the
\* canonicalized lists of all the tasks, and who_cares is the aggregate of
\* those canonicalized lists.
C23_PhaseBarrier ==
    Canonicalized =>
        /\ Len(tasks) = Len(request.companies)
        /\ \A i \in 1..Len(tasks) :
              /\ tasks[i].state = "done"
              /\ \E k \in 1..Len(completed) : completed[k] = i
        /\ result.status = 200 =>
              /\ result.companies =
                    normalizeAllEntityNames(
                        [i \in 1..Len(tasks) |->
                            [ticker        |-> request.companies[i].ticker,
                             relationships |-> tasks[i].value]])
              /\ result.who_cares = calculateWhoCaresFromRelationships(result.companies)

\* C23 witness: the three tasks completed in the order 2, 3, 1, the second one
\* degraded to the empty list by a failed call, and the answer holds an entity
\* shared by the two other companies.
C23_Witness ==
    /\ Canonicalized
    /\ completed = <<2, 3, 1>>
    /\ tasks[2].outcome \in ExtractionFailures
    /\ result.status = 200
    /\ result.who_cares # <<>>
    /\ result.companies[2].relationships = <<>>

\* C23 for the handler with semantic resolution (lines 1550-1601): the
\* resolution call is made only after the entities of every company were
\* extracted, and the relationships are built and aggregated only after it ended.
C23_SemanticPhases ==
    /\ (pc \in {"build", "done"} \/ response # NoResponse) =>
          /\ Len(discovered) = Len(RequestTickers)
          /\ returned = 1..Len(RequestTickers)
    /\ (companies # <<>> \/ who_cares # <<>>) => pc = "done"
    /\ pc = "done" =>
          /\ \A i \in 1..Len(discovered) :
                companies[i].relationships
                    = BuildRelationships(resolvedNames, discovered[i].rawEntities)
          /\ who_cares = calculateWhoCaresSemantic(companies)


\* a step of a task (the handler starts or ends no strategy in it) writes the
\* state of that task alone
OneWriter ==
    (invoked' = invoked /\ tasks' # tasks) =>
        \E i \in 1..Len(tasks) :
            /\ tasks[i].state \in {"research", "extract"}
            /\ tasks' = [tasks EXCEPT ![i] = tasks'[i]]

\* after the step, what a task returned is what the service answered to that
\* task, and the list a successful answer gives a company holds, mention by
\* mention, the canonical names of what that company's own task was answered
OwnMentionsOnly ==
    /\ \A i \in 1..Len(tasks') :
          tasks'[i].state = "done" =>
              tasks'[i].value = IF tasks'[i].outcome = "ok"
                                THEN ToRelationships(tasks'[i].entities) ELSE <<>>
    /\ (pc' = "done" /\ tasks' # <<>> /\ result'.status = 200) =>
          \A i \in 1..Len(tasks') :
              /\ tasks'[i].state = "done"
              /\ result'.companies[i].ticker = request'.companies[i].ticker
              /\ Len(result'.companies[i].relationships) = Len(tasks'[i].entities)
              /\ \A k \in 1..Len(tasks'[i].entities) :
                    /\ result'.companies[i].relationships[k].entity_name
                          = CanonicalName[tasks'[i].entities[k][1]]
                    /\ result'.companies[i].relationships[k].category
                          = tasks'[i].entities[k][2]

\* C24: no step of a per-company extraction task writes the state of another
\* task, and after the join each company's relationship list holds only the
\* mentions its own extraction produced, under every interleaving of the tasks.
C24_Isolation == [][OneWriter /\ OwnMentionsOnly]_vars

\* C24 witness: the tasks ran interleaved (the third one answered first), two
\* companies were answered with different non-empty lists, and the batch was
\* answered with each company's own list.
C24_Witness ==
    /\ Answered
    /\ result.status = 200
    /\ Len(tasks) = 3
    /\ completed[1] = 3
    /\ tasks[1].entities = << <<"BDO Australia", "auditor">> >>
    /\ tasks[3].entities = << <<" acme", "customer">> >>
    /\ result.companies[1].relationships[1].entity_name = "BDO"
    /\ result.companies[3].relationships[1].entity_name = "Acme"

----------------------------------------------------------------------------
(* SpecOrchestrator: discoverCompanyRelationships of                        *)
(* src/server/lib/discovery-orchestrator.ts (lines 72-128) for one company. *)
(* The six discovery methods run concurrently under Promise.all and return  *)
(* in any order; each returns its entities, <<name, type>>, already         *)
(* deduplicated by deduplicateEntities, with the types of its own parser.   *)

\* the six methods in the order of the array of lines 89-96
SubQueries ==
    <<"shareholders", "executives", "supplyChain", "peers", "providers", "investmentGroups">>

\* what a method may return: nothing (no result, or a failed search degraded
\* to the empty list), or entities of the types its parser produces
SubQueryResults ==
    << {<<>>, << <<"Vanguard", "shareholder">>, <<"BlackRock", "shareholder">> >>},
       {<<>>, << <<"Jane Smith", "executive">> >>},
       {<<>>, << <<"Vanguard", "supplier">>, <<"Acme", "customer">> >>},
       {<<>>, << <<"Acme", "industry_peer">> >>},
       {<<>>, << <<"BDO", "auditor">>, <<"Macquarie", "broker">> >>},
       {<<>>, << <<"Macquarie", "pe_firm">> >>} >>

\* entitiesToRelationships (relationship-discovery, lines 456-465)
entitiesToRelationships(entities) ==
    [k \in 1..Len(entities) |->
        [entity_name |-> entities[k][1],
         entity_type |-> IF entities[k][2] \in {"pe_firm", "industry_peer"} THEN "company"
                         ELSE IF entities[k][2] = "executive" THEN "person"
                         ELSE "firm",
         category    |-> entities[k][2]]]

\* deduplicateRelationships (lines 178-189): the first relationship of every
\* key `${entity_name}|${category}` is kept, in order of first occurrence
RECURSIVE deduplicateRelationships(_)
deduplicateRelationships(relationships) ==
    IF relationships = <<>> THEN <<>>
    ELSE LET n    == Len(relationships)
             last == relationships[n]
             rest == deduplicateRelationships(SubSeq(relationships, 1, n - 1))
         IN  IF \E k \in 1..Len(rest) :
                    /\ rest[k].entity_name = last.entity_name
                    /\ rest[k].category = last.category
             THEN rest
             ELSE Append(rest, last)

\* the concatenation of the entities of the methods listed in `order`
RECURSIVE Concatenate(_, _)
Concatenate(ts, order) ==
    IF order = <<>> THEN <<>>
    ELSE ts[Head(order)].entities \o Concatenate(ts, Tail(order))

\* faulty variant of allEntities: the results are appended as the methods return
AsCompleted(ts, order) == Concatenate(ts, order)

\* allEntities (lines 99-106): the six results spread in the order of the
\* destructuring of lines 82-96
allEntities(ts, order) == Concatenate(ts, [q \in 1..Len(ts) |-> q])

InitOrchestrator ==
    /\ pc = "discover"
    /\ tasks = [q \in 1..Len(SubQueries) |->
                   [state |-> "query", outcome |-> "", entities |-> <<>>, value |-> <<>>]]
    /\ completed = <<>>
    /\ discovered = <<>>
    /\ request = NoRequest
    /\ keys = NoKeys
    /\ invoked = <<>>
    /\ result = NoResult
    /\ returned = {}
    /\ companies = <<>>
    /\ who_cares = <<>>
    /\ response = NoResponse
    /\ resolvedNames = <<>>
    /\ name = ""
    /\ normalized = ""
    /\ renormalized = ""
    /\ ClientIdle

\* the discovery method q returns `entities`
SubQueryReturns(q, entities) ==
    /\ pc = "discover"
    /\ tasks[q].state = "query"
    /\ tasks' = [tasks EXCEPT ![q] = [state    |-> "done",
                                      outcome  |-> SubQueries[q],
                                      entities |-> entities,
                                      value    |-> entitiesToRelationships(entities)]]
    /\ completed' = Append(completed, q)
    /\ UNCHANGED <<pc, request, keys, invoked, result, restVars, clientVars>>

\* lines 98-121: Promise.all has resolved; the results are combined, converted
\* and deduplicated, and the DiscoveryResult is returned
CombineResults ==
    /\ pc = "discover"
    /\ \A q \in 1..Len(tasks) : tasks[q].state = "done"
    /\ discovered' =
          <<[ticker        |-> RequestTickers[1],
             relationships |-> deduplicateRelationships(
                                   entitiesToRelationships(allEntities(tasks, completed)))]>>
    /\ pc' = "done"
    /\ UNCHANGED <<tasks, completed, request, keys, invoked, result,
                   returned, companies, who_cares, response, resolvedNames,
                   name, normalized, renormalized, clientVars>>

NextOrchestrator ==
    \/ \E q \in 1..Len(SubQueries) : \E entities \in SubQueryResults[q] :
          SubQueryReturns(q, entities)
    \/ CombineResults

SpecOrchestrator == InitOrchestrator /\ [][NextOrchestrator]_vars

\* C25: the company's relationship list is the results of shareholders,
\* executives, supply chain, peers, providers and investment groups
\* concatenated in that order, without two entries of one name and category,
\* whatever the order in which the sub-queries completed.
C25_DeterministicMerge ==
    pc = "done" =>
        LET rels == discovered[1].relationships IN
        /\ [k \in 1..Len(rels) |-> <<rels[k].entity_name, rels[k].category>>]
              = tasks[1].entities \o tasks[2].entities \o tasks[3].entities
                  \o tasks[4].entities \o tasks[5].entities \o tasks[6].entities
        /\ \A k, l \in 1..Len(rels) :
              (rels[k].entity_name = rels[l].entity_name
                  /\ rels[k].category = rels[l].category) => k = l

\* C25 witness: the sub-queries completed in the reverse of the fixed order,
\* all of them with entities, and the list starts with the shareholders and
\* ends with the investment groups.
C25_Witness ==
    /\ pc = "done"
    /\ completed = <<6, 5, 4, 3, 2, 1>>
    /\ Len(discovered[1].relationships) = 9
    /\ discovered[1].relationships[1].entity_name = "Vanguard"
    /\ discovered[1].relationships[1].category = "shareholder"
    /\ discovered[1].relationships[9].category = "pe_firm"


\* C26 (as claimed): the company list ParseBatch produces never holds two
\* companies with the same ticker; rows sharing a ticker are merged.
C26_TickerUnique ==
    (ParseAnswered /\ result.status = 200) =>
        \A k, l \in 1..Len(result.companies) :
            result.companies[k].ticker = result.companies[l].ticker => k = l

\* C26, what parsePlainText does: every non-blank line becomes one company,
\* listed or excluded; no row is merged with another.
C26_OneCompanyPerRow ==
    (ParseAnswered /\ result.status = 200
        /\ (Trim(request.text.value) = "" \/ Char(Trim(request.text.value), 1) # "[")) =>
        /\ result.total_parsed
              = Len(SelectSeq(SplitLines(Trim(request.text.value)), NotBlank))
        /\ Len(result.companies) + Len(result.excluded) = result.total_parsed

\* C26: two rows with different names and the ticker BHP gave two companies.
C26_SharedTickerKept ==
    /\ ParseAnswered
    /\ request.text = Text("BHP Group Limited\nBHP Billiton (BHP)")
    /\ Len(result.companies) = 2
    /\ result.companies[1] = [name |-> "BHP Group", ticker |-> "BHP", is_listed |-> TRUE]
    /\ result.companies[2] = [name |-> "BHP Billiton", ticker |-> "BHP", is_listed |-> TRUE]

\* C26: the same row given twice also gave two companies.
C26_RepeatedRowKept ==
    /\ ParseAnswered
    /\ request.text = Text("BHP Billiton (BHP)\nBHP Billiton (BHP)")
    /\ Len(result.companies) = 2
    /\ result.companies[1] = result.companies[2]


\* a company of the batch has no ticker (the empty string)
TickerMissing == \E i \in 1..Len(companies) : companies[i].ticker = ""

\* C27 (as claimed): the aggregator does not produce a result in which a
\* missing ticker is a company key: no emitted entity counts the empty ticker
\* among its exposed companies.
C27_AggregationPrecondition ==
    pc = "done" =>
        \A i \in 1..Len(who_cares) :
            \A k \in 1..Len(who_cares[i].exposed_companies) :
                who_cares[i].exposed_companies[k] # ""

\* C27, what the aggregator does: the ticker is added to the entity's Set
\* whatever it is, so a company without a ticker counts like any other: an
\* entity is emitted exactly when its companies have two distinct tickers, the
\* empty one included.
C27_MissingTickerIsAKey ==
    (pc = "done" /\ TickerMissing) =>
        \A key \in KeysOf(companies) :
            /\ key \in EmittedNames <=> Cardinality(TickersOf(companies, key)) >= 2
            /\ \A i \in 1..Len(who_cares) :
                  who_cares[i].entity_name = key =>
                      /\ who_cares[i].exposure_count = Cardinality(TickersOf(companies, key))
                      /\ SeqToSet(who_cares[i].exposed_companies) = TickersOf(companies, key)

\* C27: an entity listed by MVF and by the company without ticker was emitted
\* with exposure_count 2 and exposed_companies MVF and "".
C27_MissingTickerCounted ==
    /\ pc = "done"
    /\ TickerMissing
    /\ \E i \in 1..Len(who_cares) :
          /\ who_cares[i].exposure_count = 2
          /\ who_cares[i].exposed_companies = <<"MVF", "">>


\* the request is not a POST, or its companies field is no array or is empty
Malformed ==
    \/ request.method # "POST"
    \/ ~request.isArray
    \/ request.companies = <<>>

C28_MethodRejected ==
    pc = "done" /\ AllKeys /\ request.method = "GET" /\ result.status = 405

C28_EmptyArrayRejected ==
    /\ pc = "done"
    /\ AllKeys
    /\ request.method = "POST"
    /\ request.isArray
    /\ request.companies = <<>>
    /\ result.status = 400


\* C29 (as claimed): a name that is non-empty after trimming has a non-empty
\* canonical name.
C29_NonEmptyCanonical ==
    (pc \in {"normalized", "renormalized"} /\ Trim(name) # "") => normalized # ""

\* C29, what normalizeEntityName returns: the empty string exactly for the
\* names that contain no alias and of which the suffix patterns leave nothing
\* but blanks.
C29_EmptyWhenOnlySuffixes ==
    pc \in {"normalized", "renormalized"} =>
        (normalized = ""
            <=> /\ FirstContained(toLowerCase(Trim(name))) = 0
                /\ Trim(StripSuffixes(Trim(name), 1)) = "")

\* C29: the name " Group", "Group" once trimmed, was normalized to "".
C29_GroupIsEmpty ==
    /\ pc = "normalized"
    /\ name = " Group"
    /\ normalized = ""

\* C29: "Holdings Limited" was normalized to "" as well, and the aggregator
\* merges it with "Group": listed by two companies under these names, the
\* entity "" is emitted with exposure_count 2.
C29_MergedUnderEmptyName ==
    /\ pc = "normalized"
    /\ name = " Holdings Limited"
    /\ normalized = ""
    /\ LET cs == <<[ticker        |-> "MVF",
                    relationships |-> <<Relationship(normalized, "shareholder")>>],
                   [ticker        |-> "TER",
                    relationships |-> <<Relationship(normalizeEntityName("Group"), "broker")>>]>>
           whoCares == calculateWhoCaresFromRelationships(cs)
       IN  /\ Len(whoCares) = 1
           /\ whoCares[1].entity_name = ""
           /\ whoCares[1].exposed_companies = <<"MVF", "TER">>

----------------------------------------------------------------------------
(* SpecClient: the Home page (src/client/src/pages/Home.tsx).  A handler    *)
(* runs up to its first await in the step of the click; its state updates   *)
(* are rendered before the next event, so a click always meets the buttons  *)
(* as the state before it enables them.  The rest of the handler runs when  *)
(* its fetch settles.  A handler works on the values of the render it was   *)
(* started in: the text and the companies are kept with the pending fetch.  *)

\* most fetches in flight
MaxInFlight == 2

\* what the user may have typed
PastedTexts == {"", "   ", "no tickers here", "Terracom Ltd (TER), Bubs (BBN)"}

ParsedCompany(ticker) == [ticker |-> ticker]

\* mockParseCompanies (mock-api, lines 18-56) on the texts the user may type
mockParseCompanies ==
    [t \in PastedTexts |->
        IF t = "Terracom Ltd (TER), Bubs (BBN)"
        THEN <<ParsedCompany("TER"), ParsedCompany("BBN")>>
        ELSE <<>>]

\* how the fetch of /api/parse-companies and response.json() can end: the
\* fetch or json() throws, the response is not ok, or the body is parsed and
\* its `companies` is an array or is missing
ParseOutcomes ==
    {[kind |-> k, companies |-> <<>>] : k \in {"rejected", "not_ok", "no_companies"}}
    \cup {[kind |-> "ok", companies |-> cs] :
            cs \in {<<>>, <<ParsedCompany("TER")>>,
                    <<ParsedCompany("TER"), ParsedCompany("BBN")>>}}

\* how the other two fetches can end
FetchOutcomes == {"rejected", "not_ok", "ok"}

\* faulty variant of Disabled: the buttons are never disabled
NeverDisabled == FALSE

\* disabled={isProcessing} (lines 167, 196, 216, 294, 309, 362, 377)
Disabled == isProcessing

InitClient ==
    /\ pc = "mounted"
    /\ ClientIdle
    /\ companies = <<>>
    /\ discovered = <<>>
    /\ returned = {}
    /\ who_cares = <<>>
    /\ response = NoResponse
    /\ resolvedNames = <<>>
    /\ name = ""
    /\ normalized = ""
    /\ renormalized = ""
    /\ request = NoRequest
    /\ keys = NoKeys
    /\ invoked = <<>>
    /\ tasks = <<>>
    /\ completed = <<>>
    /\ result = NoResult

\* the variables the page does not use
serverVars == <<pc, discovered, returned, who_cares, response, resolvedNames,
                name, normalized, renormalized, discoverVars>>

\* `pending` without its i-th fetch
Settled(i) == SubSeq(pending, 1, i - 1) \o SubSeq(pending, i + 1, Len(pending))

\* onClick={() => setAppState(...)} of lines 215, 308 and 376
Navigate(from, to) ==
    /\ appState = from
    /\ ~Disabled
    /\ appState' = to
    /\ UNCHANGED <<pastedText, batchOutput, isProcessing, error, pending, companies,
                   serverVars>>

\* onChange of the textarea (line 272), which is never disabled
ChangeText(t) ==
    /\ appState = "input"
    /\ t # pastedText
    /\ pastedText' = t
    /\ UNCHANGED <<appState, batchOutput, isProcessing, error, pending, companies,
                   serverVars>>

\* handleLoadSample up to its await (lines 43-47)
handleLoadSample ==
    /\ appState = "landing"
    /\ ~Disabled
    /\ Len(pending) < MaxInFlight
    /\ isProcessing' = TRUE
    /\ error' = ""
    /\ pending' = Append(pending, [kind |-> "load", text |-> "", companies |-> <<>>])
    /\ UNCHANGED <<appState, pastedText, batchOutput, companies, serverVars>>

\* handleLoadSample from its await on (lines 47-57)
LoadSettles(i, outcome) ==
    /\ i \in 1..Len(pending)
    /\ pending[i].kind = "load"
    /\ outcome \in {"rejected", "ok"}
    /\ IF outcome = "ok"
       THEN /\ batchOutput' = [source |-> "demo", companies |-> <<>>]
            /\ appState' = "results"
            /\ UNCHANGED error
       ELSE /\ error' = "Failed to load demo batch"
            /\ UNCHANGED <<batchOutput, appState>>
    /\ isProcessing' = FALSE
    /\ pending' = Settled(i)
    /\ UNCHANGED <<pastedText, companies, serverVars>>

\* handlePasteSubmit up to its await (lines 61-76); the button is also
\* disabled while the text is blank (line 294)
handlePasteSubmit ==
    /\ appState = "input"
    /\ ~Disabled
    /\ Trim(pastedText) # ""
    /\ Len(pending) < MaxInFlight
    /\ isProcessing' = TRUE
    /\ error' = ""
    /\ pending' = Append(pending, [kind |-> "parse", text |-> pastedText, companies |-> <<>>])
    /\ UNCHANGED <<appState, pastedText, batchOutput, companies, serverVars>>

\* handlePasteSubmit from its await on (lines 72-101)
ParseSettles(i, outcome) ==
    /\ i \in 1..Len(pending)
    /\ pending[i].kind = "parse"
    /\ LET parsedCompanies == IF outcome.kind = "not_ok"
                              THEN mockParseCompanies[pending[i].text]
                              ELSE outcome.companies
       IN  IF outcome.kind \in {"rejected", "no_companies"}
           THEN /\ error' = IF outcome.kind = "rejected" THEN "Failed to fetch"
                            ELSE "Cannot read properties of undefined (reading 'length')"
                /\ UNCHANGED <<companies, appState>>
           ELSE IF parsedCompanies = <<>>
           THEN /\ error' = "No companies found. Try including ticker codes like (TER) or (BBN)"
                /\ UNCHANGED <<companies, appState>>
           ELSE /\ companies' = parsedCompanies
                /\ appState' = "confirmation"
                /\ UNCHANGED error
    /\ isProcessing' = FALSE
    /\ pending' = Settled(i)
    /\ UNCHANGED <<pastedText, batchOutput, serverVars>>

\* handleConfirmAndAnalyze up to its await (lines 106-117)
handleConfirmAndAnalyze ==
    /\ appState = "confirmation"
    /\ ~Disabled
    /\ Len(pending) < MaxInFlight
    /\ isProcessing' = TRUE
    /\ error' = ""
    /\ appState' = "analyzing"
    /\ pending' = Append(pending, [kind |-> "analyze", text |-> "", companies |-> companies])
    /\ UNCHANGED <<pastedText, batchOutput, companies, serverVars>>

\* handleConfirmAndAnalyze from its await on (lines 113-137)
AnalyzeSettles(i, outcome) ==
    /\ i \in 1..Len(pending)
    /\ pending[i].kind = "analyze"
    /\ outcome \in FetchOutcomes
    /\ IF outcome = "rejected"
       THEN /\ error' = "Failed to fetch"
            /\ appState' = "confirmation"
            /\ UNCHANGED batchOutput
       ELSE /\ batchOutput' = [source    |-> IF outcome = "ok" THEN "server" ELSE "mock",
                               companies |-> pending[i].companies]
            /\ appState' = "results"
            /\ UNCHANGED error
    /\ isProcessing' = FALSE
    /\ pending' = Settled(i)
    /\ UNCHANGED <<pastedText, companies, serverVars>>

\* handleReset (lines 140-147); the button exists off the landing page (line 162)
handleReset ==
    /\ appState # "landing"
    /\ ~Disabled
    /\ appState' = "landing"
    /\ pastedText' = ""
    /\ companies' = <<>>
    /\ batchOutput' = NoBatch
    /\ error' = ""
    /\ UNCHANGED <<isProcessing, pending, serverVars>>

\* the steps the user takes
UserStep ==
    \/ Navigate("landing", "input")
    \/ Navigate("input", "landing")
    \/ Navigate("confirmation", "input")
    \/ \E t \in PastedTexts : ChangeText(t)
    \/ handleLoadSample
    \/ handlePasteSubmit
    \/ handleConfirmAndAnalyze
    \/ handleReset

\* the steps that take the settling of a fetch
SettleStep ==
    \E i \in 1..Len(pending) :
        \/ \E outcome \in {"rejected", "ok"} : LoadSettles(i, outcome)
        \/ \E outcome \in ParseOutcomes : ParseSettles(i, outcome)
        \/ \E outcome \in FetchOutcomes : AnalyzeSettles(i, outcome)

NextClient == UserStep \/ SettleStep

SpecClient == InitClient /\ [][NextClient]_vars

\* SpecClientLive: the promise of every fetch of the page settles, by a
\* response or by a network error (weak fairness of SettleStep); the user is
\* under no obligation.
SpecClientLive == SpecClient /\ WF_vars(SettleStep)

\* at most one fetch is in flight, exactly while isProcessing, and the page is
\* 'analyzing' only while its fetch is in flight
OneInFlight ==
    /\ Len(pending) <= 1
    /\ isProcessing <=> pending # <<>>
    /\ appState = "analyzing" => (isProcessing /\ pending[1].kind = "analyze")

\* while isProcessing a step is the settling of the fetch, or only edits the text
NoHandlerStarts ==
    isProcessing =>
        \/ pending' = <<>> /\ ~isProcessing'
        \/ UNCHANGED <<appState, batchOutput, isProcessing, error, pending, companies>>

\* 'analyzing' is left for 'results' with a batch and no error, or for
\* 'confirmation' with an error; the companies stay as they were
AnalyzingLeft ==
    (appState = "analyzing" /\ appState' # "analyzing") =>
        /\ ~isProcessing'
        /\ companies' = companies
        /\ \/ appState' = "results" /\ batchOutput' # NoBatch /\ error' = ""
           \/ appState' = "confirmation" /\ error' # "" /\ batchOutput' = batchOutput

C30_MockFallback ==
    /\ appState = "results"
    /\ ~isProcessing
    /\ batchOutput = [source    |-> "mock",
                      companies |-> <<ParsedCompany("TER"), ParsedCompany("BBN")>>]
    /\ error = ""

====
